---- MODULE Spec2Model ----
(***************************************************************************)
(* A model of the Combine core: the outgoing OAI-PMH server                *)
(* (app/core/oai.py) and the organization views                             *)
(* (app/core/views/organization.py).                                        *)
(*                                                                         *)
(* Strings are TLA+ strings, Python dicts are functions whose DOMAIN is    *)
(* the set of keys present, Python lists and lxml child lists are          *)
(* sequences, and Python None is the value NONE.                           *)
(***************************************************************************)
EXTENDS Integers, Sequences, FiniteSets, TLC

(***************************************************************************)
(* Bounds of the model.                                                    *)
(***************************************************************************)
MaxRecords == 3        \* published records in the store
MaxChunk == 2          \* largest configured OAI_RESPONSE_SIZE
MaxTransactions == 2   \* OAITransaction rows that may be persisted
MaxClock == 5400       \* last instant (seconds) the clock reaches
MaxOrgs == 2           \* Organization rows
MaxDeleteRequests == 2 \* organization_delete requests served
MaxRunRequests == 3    \* run-all and stop-all requests served
MaxTsRequests == 3     \* transformation-scenario requests served
MaxBgRequests == 3     \* background-task requests served
MaxSiblings == 3       \* repeated sibling elements in a document
MaxHashSeeds == 2      \* hash seeds a Python process may run under
MaxValues == 2         \* values of one field in a document of long values
MaxIndices == 2        \* indices of the search cluster
MaxDocs == 3           \* documents a search counts
MaxJobs == 2           \* Job rows whose records are counted

(***************************************************************************)
(* Program constants.                                                      *)
(***************************************************************************)
TOKEN_TTL == 3600      \* datetime.timedelta(0, 3600)
SANITIZE_LENGTH == 32000 \* _sanitize_value: len(value) > 32000

NONE == "<None>"
ABSENT == "<absent>"   \* marks a key left out of a request while building it

COMBINE_OAI_IDENTIFIER == "oai:combine"

Min(a, b) == IF a < b THEN a ELSE b

VARIABLES
    records,            \* PublishedRecords.records, in stored order
    OAI_RESPONSE_SIZE,  \* settings.OAI_RESPONSE_SIZE
    transactions,       \* the OAITransaction table, in insertion order
    now,                \* the wall clock, in seconds
    req,                \* args of the request being answered
    resp,               \* the response to it (status none between requests)
    chain,              \* the harvester's position in its paging chain
    redeemed,           \* tokens a list page has been served from
    reuse,              \* the request presents a token redeemed before it
    advertised,         \* token -> the expirationDate it was issued with
    orgs,               \* the Organization table: id -> row
    recordGroups,       \* the RecordGroup table: id -> organization id
    jobs,               \* the Job table: id -> record group id
    jobRecords,         \* the Record table: id -> job id
    bgTasks,            \* the CombineBackgroundTask table, in insertion order
    queue,              \* the task queue: enqueued task signatures
    orgResp,            \* what the organization view served last returned
    deleteRequests,     \* organization_delete requests served so far
    jobStatus,          \* Job.status: job id -> status
    activeRuns,         \* job id -> runs of the job active at this moment
    rerunQueue,         \* rerun tasks handed over: the jobs each has left
    messages,           \* the session's global messages, oldest first
    runResp,            \* what the run/stop view served last returned
    runRequests,        \* run/stop requests served so far
    passedOver,         \* jobs a rerun task found running and left alone
    ENABLE_PYTHON,      \* settings.ENABLE_PYTHON is set
    transformations,    \* the Transformation table: id -> row
    lastTransformationId, \* the highest id the table has given out
    tsReq,              \* the transformation-scenario request served last
    tsResp,             \* the response to it
    tsRequests,         \* transformation-scenario requests served so far
    revoked,            \* task ids whose cancellation the queue was asked for
    dropped,            \* task ids the queue gave up without running them
    deleteAll,          \* bg_tasks_delete_all under way: the rows it fetched
    deletedRows,        \* rows a delete removed: id, cancelled before or not
    bgResp,             \* the background-task request served last: its answer
    bgRequests,         \* background-task requests served so far
    xmlDoc,             \* xml_input: the document handed to xml_to_kvp
    config,             \* the keyword arguments the mapping is called with
    kvpHandler,         \* the XML2kvp handler of the last xml_to_kvp call
    hashSeed,           \* the hash seed of the process the mapping runs in
    kvpDict,            \* the mapping xml_to_kvp returned first
    kvpAgain,           \* the mapping of the same document made after it
    xmlRecord,          \* the XMLRecord kvp_to_xml returned, or what it raised
    kvpRemapped,        \* the mapping of the reconstructed document
    kvpStage,           \* how far the mapping of the document has come
    esCluster,          \* the search cluster: index name -> index
    esIndex,            \* ESIndex.es_index of the last field discovery
    esFields,           \* what get_index_fields returned
    ONE_PER_DOC_OFFSET, \* settings.ONE_PER_DOC_OFFSET, in ten-thousandths
    srDict,             \* the search results handed to _calc_field_metrics
    fieldDict,          \* what _calc_field_metrics returned
    recordCounts,       \* Job.record_count: job id -> count
    countResp,          \* what total_record_count returned, and for whom
    updateCalls         \* the rows the last listing called update() on

oaiVars == <<records, OAI_RESPONSE_SIZE, transactions, now, req, resp, chain,
             redeemed, reuse, advertised>>
orgVars == <<orgs, recordGroups, jobs, jobRecords, bgTasks, queue, orgResp,
             deleteRequests>>
runVars == <<jobStatus, activeRuns, rerunQueue, messages, runResp,
             runRequests, passedOver>>
tsVars == <<ENABLE_PYTHON, transformations, lastTransformationId, tsReq,
            tsResp, tsRequests>>
bgVars == <<revoked, dropped, deleteAll, deletedRows, bgResp, bgRequests>>
kvpVars == <<xmlDoc, config, kvpHandler, hashSeed, kvpDict, kvpAgain, xmlRecord,
             kvpRemapped, kvpStage>>
esVars == <<esCluster, esIndex, esFields, ONE_PER_DOC_OFFSET, srDict,
            fieldDict>>
countVars == <<recordCounts, countResp>>
listingVars == <<updateCalls>>
vars == <<oaiVars, orgVars, runVars, tsVars, bgVars, kvpVars, esVars,
          countVars, listingVars>>

\* What the actions of one part leave alone.
besideOai ==
    <<orgVars, runVars, tsVars, bgVars, kvpVars, esVars, countVars, listingVars>>
besideOrg ==
    <<oaiVars, runVars, tsVars, bgVars, kvpVars, esVars, countVars, listingVars>>
besideRun ==
    <<oaiVars, orgVars, tsVars, bgVars, kvpVars, esVars, countVars, listingVars>>
besideTs ==
    <<oaiVars, orgVars, runVars, bgVars, kvpVars, esVars, countVars, listingVars>>
besideBg ==
    <<oaiVars, runVars, tsVars, kvpVars, esVars, countVars, listingVars>>
besideKvp ==
    <<oaiVars, orgVars, runVars, tsVars, bgVars, esVars, countVars, listingVars>>
besideCount ==
    <<oaiVars, runVars, tsVars, bgVars, kvpVars, esVars, listingVars>>
besideListing == <<oaiVars, runVars, tsVars, kvpVars, esVars, countVars>>
besideEs ==
    <<oaiVars, orgVars, runVars, tsVars, bgVars, kvpVars, countVars, listingVars>>

(***************************************************************************)
(* OAIProvider (app/core/oai.py).                                          *)
(***************************************************************************)
Verbs == {"GetRecord", "Identify", "ListIdentifiers", "ListMetadataFormats",
          "ListRecords", "ListSets"}

ListVerbs == {"ListIdentifiers", "ListRecords"}

\* lxml refuses to build an element whose tag is not an XML name
\* (ValueError); of the tags the model draws, the empty one is refused.
ValidTagName(tag) == Len(tag) > 0

\* OAIProvider.__init__: the paging state of a request without a token.
publish_set_id_of(args) ==
    IF "set" \in DOMAIN args /\ args["set"] # "" THEN args["set"] ELSE NONE

\* OAIProvider.scaffold: the verb defaults to NULL, the request node copies
\* verb, set and metadataPrefix, and the verb node is named after the verb.
scaffold(p) ==
    LET args1 == IF "verb" \in DOMAIN p.args
                 THEN p.args
                 ELSE [k \in DOMAIN p.args \cup {"verb"} |->
                          IF k = "verb" THEN "NULL" ELSE p.args[k]]
        copied == DOMAIN args1 \cap {"verb", "set", "metadataPrefix"}
    IN  IF ~ValidTagName(args1["verb"])
        THEN [p EXCEPT !.args = args1, !.raised = "ValueError"]
        ELSE [p EXCEPT
                !.args = args1,
                !.request_attrs = [k \in copied |-> args1[k]],
                !.root_node =
                    << [id |-> "responseDate_node", tag |-> "responseDate",
                        code |-> NONE],
                       [id |-> "request_node", tag |-> "request",
                        code |-> NONE],
                       [id |-> "verb_node", tag |-> args1["verb"],
                        code |-> NONE] >>]

NewProvider(args, t, size) ==
    scaffold([args |-> args,
              request_timestamp |-> t,
              record_nodes |-> <<>>,
              start |-> 0,
              chunk_size |-> size,
              publish_set_id |-> publish_set_id_of(args),
              root_node |-> <<>>,
              request_attrs |-> <<>>,
              verb_node |-> <<>>,
              saved |-> <<>>,
              raised |-> NONE])

\* OAIRecord._construct_oai_identifier
_construct_oai_identifier(publish_set_id, record_id) ==
    IF publish_set_id # NONE /\ publish_set_id # ""
    THEN COMBINE_OAI_IDENTIFIER \o ":" \o publish_set_id \o ":" \o record_id
    ELSE COMBINE_OAI_IDENTIFIER \o ":" \o record_id

\* OAIRecord.__init__ / init_record_node: header with identifier, datestamp
\* and, when the request has a set argument, a setSpec holding that argument.
OAIRecord(args, record_id, publish_set_id, document, timestamp) ==
    [record_id |-> record_id,
     publish_set_id |-> publish_set_id,
     document |-> document,
     oai_record_node |->
        [tag |-> "record",
         header |-> [identifier |->
                        _construct_oai_identifier(publish_set_id, record_id),
                     datestamp |-> timestamp,
                     setSpec |-> IF "set" \in DOMAIN args
                                 THEN <<args["set"]>> ELSE <<>>],
         metadata |-> <<>>]]

\* OAIRecord.include_metadata: a metadata node holding the parsed document
include_metadata(record) ==
    [record EXCEPT !.oai_record_node.metadata = <<record.document>>]

\* records.filter(publish_set_id=...), applied when the filter is truthy
FilterBySet(rows, publish_set_id) ==
    IF publish_set_id # NONE /\ publish_set_id # ""
    THEN SelectSeq(rows, LAMBDA r : r.publish_set_id = publish_set_id)
    ELSE rows

\* records[self.start:(self.start + self.chunk_size)]
Slice(rows, start, chunk_size) ==
    SubSeq(rows, start + 1, Min(start + chunk_size, Len(rows)))

\* A token issued also when the chunk ends exactly at the end of the list.
HasMore_inclusive(start, chunk_size, completeListSize) ==
    start + chunk_size <= completeListSize

\* set_resumption_token: more results remain beyond this chunk
HasMore(start, chunk_size, completeListSize) ==
    start + chunk_size < completeListSize

\* A row that persists the start of the page just emitted.
NextStart_stays(start, chunk_size) == start

\* set_resumption_token: the start persisted for the next page
NextStart(start, chunk_size) == start + chunk_size

\* set_resumption_token: the advertised expirationDate
ExpirationDate(request_timestamp) == request_timestamp + TOKEN_TTL

\* str(uuid.uuid4()): a token no stored transaction carries
NewToken(txs) == "uuid" \o ToString(Len(txs) + 1)

\* OAIProvider.set_resumption_token
set_resumption_token(p, txs, completeListSize) ==
    IF HasMore(p.start, p.chunk_size, completeListSize)
    THEN LET token == NewToken(txs)
             oai_trans == [verb |-> p.args["verb"],
                           start |-> NextStart(p.start, p.chunk_size),
                           chunk_size |-> p.chunk_size,
                           publish_set_id |-> p.publish_set_id,
                           token |-> token]
             node == [tag |-> "resumptionToken",
                      text |-> token,
                      expirationDate |-> ExpirationDate(p.request_timestamp),
                      completeListSize |-> ToString(completeListSize),
                      cursor |-> ToString(p.start)]
         IN  [p EXCEPT !.saved = Append(@, oai_trans),
                       !.verb_node = Append(@, node)]
    ELSE p

\* OAIProvider.retrieve_records
retrieve_records(p, rows, txs, with_metadata) ==
    LET filtered == FilterBySet(rows, p.publish_set_id)
        records_count == Len(filtered)
        page == Slice(filtered, p.start, p.chunk_size)
        nodes == [i \in 1..Len(page) |->
                    LET record == OAIRecord(p.args, page[i].record_id,
                                            page[i].publish_set_id,
                                            page[i].document,
                                            p.request_timestamp)
                    IN  IF with_metadata
                        THEN include_metadata(record).oai_record_node
                        ELSE record.oai_record_node]
        p1 == [p EXCEPT !.record_nodes = @ \o nodes]
        p2 == [p1 EXCEPT !.verb_node = @ \o p1.record_nodes]
    IN  set_resumption_token(p2, txs, records_count)

\* PublishedRecords.get_record: the record with that identifier, or none
get_record(rows, identifier) ==
    SelectSeq(rows, LAMBDA r : r.record_id = identifier)

\* PublishedRecords.sets: the distinct publish sets, in order of appearance
RECURSIVE published_sets(_)
published_sets(rows) ==
    IF rows = <<>> THEN <<>>
    ELSE LET front == published_sets(SubSeq(rows, 1, Len(rows) - 1))
             s == rows[Len(rows)].publish_set_id
         IN  IF s = NONE \/ \E i \in 1..Len(front) : front[i] = s
             THEN front ELSE Append(front, s)

\* An error node appended while the half-built verb node stays in the root.
raise_error_keeps_verb(p, error_code) ==
    [p EXCEPT !.root_node =
        Append(@, [id |-> "error_node", tag |-> "error", code |-> error_code])]

\* An error node appended without its code.
raise_error_uncoded(p, error_code) ==
    [p EXCEPT !.root_node =
        Append(SelectSeq(@, LAMBDA n : n.id # "verb_node"),
               [id |-> "error_node", tag |-> "error", code |-> NONE])]

\* OAIProvider.raise_error: the verb node leaves the root, an error node
\* with the code is appended.
raise_error(p, error_code) ==
    [p EXCEPT !.root_node =
        Append(SelectSeq(@, LAMBDA n : n.id # "verb_node"),
               [id |-> "error_node", tag |-> "error", code |-> error_code])]

\* A GetRecord that answers an unknown identifier with idDoesNotExist.
_GetRecord_idDoesNotExist(p, rows) ==
    IF "identifier" \notin DOMAIN p.args
    THEN [p EXCEPT !.raised = "KeyError"]
    ELSE LET single_record == get_record(rows, p.args["identifier"])
         IN  IF single_record # <<>>
             THEN [p EXCEPT !.verb_node =
                     Append(@, include_metadata(
                         OAIRecord(p.args, single_record[1].record_id, NONE,
                                   single_record[1].document,
                                   p.request_timestamp)).oai_record_node)]
             ELSE raise_error(p, "idDoesNotExist")

\* OAIProvider._GetRecord
_GetRecord(p, rows) ==
    IF "identifier" \notin DOMAIN p.args
    THEN [p EXCEPT !.raised = "KeyError"]
    ELSE LET single_record == get_record(rows, p.args["identifier"])
         IN  IF single_record # <<>>
             THEN LET record == include_metadata(
                          OAIRecord(p.args, single_record[1].record_id, NONE,
                                    single_record[1].document,
                                    p.request_timestamp))
                      p1 == [p EXCEPT !.record_nodes =
                                          Append(@, record.oai_record_node)]
                  IN  [p1 EXCEPT !.verb_node = @ \o p1.record_nodes]
             ELSE p

\* OAIProvider._Identify
_Identify(p) ==
    [p EXCEPT !.verb_node =
        Append(@, [tag |-> "description",
                   text |-> "Combine, integrated OAI-PMH."])]

generic_metadata_format ==
    [tag |-> "metadataFormat", metadataPrefix |-> "generic",
     schema |-> "http://generic.org/schema", metadataNamespace |-> "gnc"]

\* A ListMetadataFormats that does not look the identifier up.
_ListMetadataFormats_unchecked(p, rows) ==
    [p EXCEPT !.verb_node = Append(@, generic_metadata_format)]

\* OAIProvider._ListMetadataFormats
_ListMetadataFormats(p, rows) ==
    IF "identifier" \in DOMAIN p.args
    THEN IF get_record(rows, p.args["identifier"]) # <<>>
         THEN [p EXCEPT !.verb_node = Append(@, generic_metadata_format)]
         ELSE raise_error(p, "idDoesNotExist")
    ELSE [p EXCEPT !.verb_node = Append(@, generic_metadata_format)]

\* OAIProvider._ListSets
_ListSets(p, rows) ==
    LET sets == published_sets(rows)
    IN  [p EXCEPT !.verb_node =
            @ \o [i \in 1..Len(sets) |->
                    [tag |-> "set", setSpec |-> sets[i], setName |-> sets[i]]]]

\* self.verb_routes[self.args['verb']]()
verb_routes(p, rows, txs) ==
    CASE p.args["verb"] = "GetRecord" -> _GetRecord(p, rows)
      [] p.args["verb"] = "Identify" -> _Identify(p)
      [] p.args["verb"] = "ListIdentifiers" ->
            retrieve_records(p, rows, txs, FALSE)
      [] p.args["verb"] = "ListMetadataFormats" ->
            _ListMetadataFormats(p, rows)
      [] p.args["verb"] = "ListRecords" ->
            retrieve_records(p, rows, txs, TRUE)
      [] p.args["verb"] = "ListSets" -> _ListSets(p, rows)

\* A lookup that no longer finds a token once a page was served from it.
ot_query_single_use(txs, token) ==
    SelectSeq(txs, LAMBDA ot : ot.token = token /\ token \notin redeemed)

\* OAITransaction.objects.filter(token=...)
ot_query(txs, token) == SelectSeq(txs, LAMBDA ot : ot.token = token)

\* generate_response: a token is followed when exactly one row carries it
TokenFound(q) == Len(q) = 1

\* A token followed for its start alone.
follow_token_start_only(p, ot) == [p EXCEPT !.start = ot.start]

\* generate_response: set args and start and chunk_size
follow_token(p, ot) ==
    [p EXCEPT !.start = ot.start,
              !.chunk_size = ot.chunk_size,
              !.publish_set_id = ot.publish_set_id]

\* OAIProvider.generate_response
generate_response(p, rows, txs) ==
    IF p.args["verb"] \notin Verbs
    THEN raise_error(p, "badVerb")
    ELSE IF "resumptionToken" \in DOMAIN p.args
         THEN LET q == ot_query(txs, p.args["resumptionToken"])
              IN  IF TokenFound(q)
                  THEN verb_routes(follow_token(p, q[1]), rows, txs)
                  ELSE raise_error(p, "badResumptionToken")
         ELSE verb_routes(p, rows, txs)

\* OAIProvider.serialize: the document as the caller reads it; an exception
\* raised on the way leaves no document.
serialize(p) ==
    IF p.raised # NONE
    THEN [status |-> "exception", raised |-> p.raised, request |-> <<>>,
          responseDate |-> p.request_timestamp, root |-> <<>>]
    ELSE [status |-> "document", raised |-> NONE,
          request |-> p.request_attrs,
          responseDate |-> p.request_timestamp,
          root |-> [i \in 1..Len(p.root_node) |->
                      [id |-> p.root_node[i].id,
                       tag |-> p.root_node[i].tag,
                       code |-> p.root_node[i].code,
                       children |-> IF p.root_node[i].id = "verb_node"
                                    THEN p.verb_node ELSE <<>>]]]

\* One request: OAIProvider(args).generate_response()
Serve(args, rows, txs, t, size) ==
    LET p0 == NewProvider(args, t, size)
    IN  IF p0.raised # NONE THEN p0 ELSE generate_response(p0, rows, txs)

(***************************************************************************)
(* Reading a response document.                                            *)
(***************************************************************************)
ChildrenOf(doc, id) ==
    IF \E i \in 1..Len(doc.root) : doc.root[i].id = id
    THEN (SelectSeq(doc.root, LAMBDA n : n.id = id))[1].children
    ELSE <<>>

NodesWithId(doc, id) == SelectSeq(doc.root, LAMBDA n : n.id = id)

TagChildren(doc, tag) ==
    SelectSeq(ChildrenOf(doc, "verb_node"), LAMBDA n : n.tag = tag)

RecordNodes(doc) == TagChildren(doc, "record")
TokenNodes(doc) == TagChildren(doc, "resumptionToken")
ErrorCodes(doc) ==
    LET e == NodesWithId(doc, "error_node")
    IN  [i \in 1..Len(e) |-> e[i].code]
Identifiers(doc) ==
    LET r == RecordNodes(doc)
    IN  [i \in 1..Len(r) |-> r[i].header.identifier]

(***************************************************************************)
(* The published records and the requests the model draws.                 *)
(***************************************************************************)
PublishSets == {"s1"}

PublishedRecord(i, s) ==
    [record_id |-> "r" \o ToString(i),
     publish_set_id |-> s,
     document |-> "<doc id='" \o ToString(i) \o "'/>"]

\* Stores of 0..MaxRecords records in which every other record is in the
\* publish set, beginning with the first record or with the second.
RecordLists ==
    { [i \in 1..n |-> PublishedRecord(i, IF (i + first) % 2 = 0
                                         THEN "s1" ELSE NONE)] :
        n \in 0..MaxRecords, first \in {0, 1} }

VerbArgs == Verbs \cup {"NotAVerb", "", ABSENT}
\* The set argument: the empty set argument is drawn for the verbs that
\* emit records, the only ones that read it beyond copying it.
SetArgs(verb) ==
    IF verb \in ListVerbs \cup {"GetRecord"}
    THEN PublishSets \cup {"", ABSENT} ELSE PublishSets \cup {ABSENT}
IdentifierArgs(verb) ==
    IF verb \in {"GetRecord", "ListMetadataFormats"}
    THEN {"r1", "r0", ABSENT} ELSE {ABSENT}
TokenArgs == {transactions[i].token : i \in 1..Len(transactions)}
                \cup {"stale", ABSENT}

MakeArgs(verb, set, token, identifier) ==
    LET given == [verb |-> verb, set |-> set, resumptionToken |-> token,
                  identifier |-> identifier]
    IN  [k \in {k \in DOMAIN given : given[k] # ABSENT} |-> given[k]]

(***************************************************************************)
(* The harvester's paging chain: started by a list request without a       *)
(* token, continued by a list request that redeems the token of the page   *)
(* before.                                                                 *)
(***************************************************************************)
NoChain == [active |-> FALSE, filter |-> NONE, pages |-> <<>>, token |-> NONE]

TokenOf(doc) == IF TokenNodes(doc) = <<>> THEN NONE ELSE TokenNodes(doc)[1].text

ChainAfter(args, doc) ==
    IF doc.status # "document" \/ "verb" \notin DOMAIN args
       \/ args["verb"] \notin ListVerbs
    THEN chain
    ELSE IF "resumptionToken" \notin DOMAIN args
         THEN [active |-> TRUE, filter |-> publish_set_id_of(args),
               pages |-> <<Identifiers(doc)>>, token |-> TokenOf(doc)]
         ELSE IF chain.active /\ chain.token # NONE
                 /\ args["resumptionToken"] = chain.token
              THEN [chain EXCEPT !.pages = Append(@, Identifiers(doc)),
                                 !.token = TokenOf(doc)]
              ELSE chain

\* The request was served a list page from a stored token.
Redeems(args, doc) ==
    /\ doc.status = "document"
    /\ "resumptionToken" \in DOMAIN args
    /\ NodesWithId(doc, "verb_node") # <<>>
    /\ doc.request["verb"] \in ListVerbs

NoResponse == [status |-> "none", raised |-> NONE, request |-> <<>>,
               responseDate |-> 0, root |-> <<>>]

(***************************************************************************)
(* Actions of the OAI server.                                              *)
(***************************************************************************)
Request ==
    /\ resp.status = "none"
    /\ \E verb \in VerbArgs, token \in TokenArgs :
        \E set \in SetArgs(verb), identifier \in IdentifierArgs(verb) :
        \E args \in {MakeArgs(verb, set, token, identifier)} :
        \E p \in {Serve(args, records, transactions, now, OAI_RESPONSE_SIZE)} :
        \E doc \in {serialize(p)} :
          LET saved == IF p.raised = NONE THEN p.saved ELSE <<>>
          IN
            /\ Len(transactions) + Len(saved) <= MaxTransactions
            /\ transactions' = transactions \o saved
            /\ req' = args
            /\ resp' = doc
            /\ chain' = ChainAfter(args, doc)
            /\ redeemed' = IF Redeems(args, doc)
                           THEN redeemed \cup {args["resumptionToken"]}
                           ELSE redeemed
            /\ reuse' = /\ "resumptionToken" \in DOMAIN args
                        /\ args["resumptionToken"] \in redeemed
            /\ advertised' =
                 [t \in (DOMAIN advertised \cup {TokenOf(doc)}) \ {NONE} |->
                     IF t \in DOMAIN advertised THEN advertised[t]
                     ELSE TokenNodes(doc)[1].expirationDate]
            /\ UNCHANGED <<records, OAI_RESPONSE_SIZE, now>>
            /\ UNCHANGED besideOai

\* The response has been sent and the provider of the request is dropped.
Respond ==
    /\ resp.status # "none"
    /\ req' = <<>>
    /\ resp' = NoResponse
    /\ reuse' = FALSE
    /\ UNCHANGED <<records, OAI_RESPONSE_SIZE, transactions, now, chain,
                   redeemed, advertised>>
    /\ UNCHANGED besideOai

\* The server is started again under a larger settings.OAI_RESPONSE_SIZE;
\* the OAITransaction table is kept.
Reconfigure ==
    /\ resp.status = "none"
    /\ OAI_RESPONSE_SIZE' \in (OAI_RESPONSE_SIZE + 1)..MaxChunk
    /\ UNCHANGED <<records, transactions, now, req, resp, chain, redeemed,
                   reuse, advertised>>
    /\ UNCHANGED besideOai

\* Half an hour passes between two requests.
Tick ==
    /\ resp.status = "none"
    /\ now + TOKEN_TTL \div 2 <= MaxClock
    /\ now' = now + TOKEN_TTL \div 2
    /\ UNCHANGED <<records, OAI_RESPONSE_SIZE, transactions, req, resp, chain,
                   redeemed, reuse, advertised>>
    /\ UNCHANGED besideOai


(***************************************************************************)
(* Organization views (app/core/views/organization.py) and the task-queue  *)
(* worker that runs the tasks they enqueue.                                *)
(***************************************************************************)
OrgIds == 1..MaxOrgs

NoOrgResponse == [view |-> "none", org_id |-> 0, status |-> "none",
                  to |-> NONE, orgs |-> {}]

\* A name left as it was.
DeletingName_unchanged(name) == name

\* org.name = "%s (DELETING)" % org.name
DeletingName(name) == name \o " (DELETING)"

\* Organization.objects.exclude(for_analysis=True).all()
ListedOrganizations(table) ==
    {[id |-> o, name |-> table[o].name] :
        o \in {x \in DOMAIN table : ~table[x].for_analysis}}

\* organizations, GET: the page lists every organization not for analysis
organizations ==
    /\ orgResp' = [view |-> "organizations", org_id |-> 0, status |-> "page",
                   to |-> NONE, orgs |-> ListedOrganizations(orgs)]
    /\ UNCHANGED <<orgs, recordGroups, jobs, jobRecords, bgTasks, queue,
                   deleteRequests>>
    /\ UNCHANGED besideOrg

\* A delete enqueued for another organization than the one requested.
DeleteOrganizationRows_other(org_id, n) ==
    LET name == DeletingName(orgs[org_id].name)
        task_id == "task" \o ToString(n)
    IN  [orgs |-> [orgs EXCEPT ![org_id].name = name],
         combine_task |->
            [id |-> n,
             name |-> "Delete Organization: " \o name,
             task_type |-> "delete_model_instance",
             task_params_json |-> [model |-> "Organization",
                                   org_id |-> org_id],
             celery_task_id |-> task_id,
             completed |-> FALSE],
         bg_task |-> [task_id |-> task_id,
                      task |-> "delete_model_instance",
                      args |-> <<"Organization", (org_id % MaxOrgs) + 1>>]]

\* The rows organization_delete leaves behind for an existing organization:
\* the renamed organization, the CombineBackgroundTask and the enqueued task.
\* n numbers the request: the row's id and the queue's task id are new.
DeleteOrganizationRows(org_id, n) ==
    LET name == DeletingName(orgs[org_id].name)
        task_id == "task" \o ToString(n)
    IN  [orgs |-> [orgs EXCEPT ![org_id].name = name],
         combine_task |->
            [id |-> n,
             name |-> "Delete Organization: " \o name,
             task_type |-> "delete_model_instance",
             task_params_json |-> [model |-> "Organization",
                                   org_id |-> org_id],
             celery_task_id |-> task_id,
             completed |-> FALSE],
         bg_task |-> [task_id |-> task_id,
                      task |-> "delete_model_instance",
                      args |-> <<"Organization", org_id>>]]

\* organization_delete: Organization.objects.get raises DoesNotExist for an
\* id without a row; otherwise rename, save, persist the background task,
\* enqueue the delete, record the queue's task id and redirect.
organization_delete ==
    \E org_id \in OrgIds :
        /\ deleteRequests < MaxDeleteRequests
        /\ deleteRequests' = deleteRequests + 1
        /\ IF org_id \notin DOMAIN orgs
           THEN /\ orgResp' = [view |-> "organization_delete",
                               org_id |-> org_id, status |-> "exception",
                               to |-> NONE, orgs |-> {}]
                /\ UNCHANGED <<orgs, bgTasks, queue>>
           ELSE LET rows == DeleteOrganizationRows(org_id,
                                                   deleteRequests + 1)
                IN  /\ orgs' = rows.orgs
                    /\ bgTasks' = Append(bgTasks, rows.combine_task)
                    /\ queue' = Append(queue, rows.bg_task)
                    /\ orgResp' = [view |-> "organization_delete",
                                   org_id |-> org_id, status |-> "redirect",
                                   to |-> "organizations", orgs |-> {}]
        /\ UNCHANGED <<recordGroups, jobs, jobRecords>>
        /\ UNCHANGED besideOrg

Without(table, ids) == [x \in DOMAIN table \ ids |-> table[x]]

\* tasks.delete_model_instance, run by a worker of the task queue: the
\* organization is deleted with its record groups, their jobs and their
\* records; nothing happens when the organization is already gone.
delete_model_instance ==
    \E i \in 1..Len(queue) :
        LET org_id == queue[i].args[2]
            gone == {org_id} \cap DOMAIN orgs
            rgs == {g \in DOMAIN recordGroups : recordGroups[g] \in gone}
            js == {j \in DOMAIN jobs : jobs[j] \in rgs}
            rs == {r \in DOMAIN jobRecords : jobRecords[r] \in js}
        IN  /\ queue' = SubSeq(queue, 1, i - 1) \o
                        SubSeq(queue, i + 1, Len(queue))
            /\ orgs' = Without(orgs, gone)
            /\ recordGroups' = Without(recordGroups, rgs)
            /\ jobs' = Without(jobs, js)
            /\ jobRecords' = Without(jobRecords, rs)
            /\ UNCHANGED <<bgTasks, orgResp, deleteRequests>>
            /\ UNCHANGED besideOrg

(***************************************************************************)
(* Running and stopping the jobs of an organization                        *)
(* (organization_run_jobs, organization_stop_jobs) and the runs of jobs.   *)
(***************************************************************************)
NoRunResponse == [view |-> "none", org_id |-> 0, status |-> "none",
                  to |-> NONE]

JobName(j) == "job" \o ToString(j)

\* '<br>'.join(names)
RECURSIVE JoinBr(_)
JoinBr(names) ==
    IF names = <<>> THEN ""
    ELSE IF Len(names) = 1 THEN names[1]
    ELSE names[1] \o "<br>" \o JoinBr(Tail(names))

\* Organization.all_jobs: the jobs of the organization's record groups,
\* by id.
all_jobs(org_id) ==
    SelectSeq([j \in 1..MaxOrgs |-> j],
              LAMBDA j : /\ j \in DOMAIN jobs
                         /\ jobs[j] \in DOMAIN recordGroups
                         /\ recordGroups[jobs[j]] = org_id)

\* organization_run_jobs: every job of the organization is handed to
\* tasks.rerun_jobs, a success message lists their names, redirect.
organization_run_jobs ==
    \E org_id \in OrgIds \cup {MaxOrgs + 1} :
        /\ runRequests < MaxRunRequests
        /\ runRequests' = runRequests + 1
        /\ IF org_id \notin DOMAIN orgs
           THEN /\ runResp' = [view |-> "organization_run_jobs",
                               org_id |-> org_id, status |-> "exception",
                               to |-> NONE]
                /\ UNCHANGED <<rerunQueue, messages>>
           ELSE LET js == all_jobs(org_id)
                IN  /\ rerunQueue' = Append(rerunQueue, js)
                    /\ messages' = Append(messages,
                          [html |-> "<strong>Preparing to Rerun Job(s):"
                                    \o "</strong><br>" \o
                                    JoinBr([i \in 1..Len(js) |->
                                                JobName(js[i])]),
                           class |-> "success"])
                    /\ runResp' = [view |-> "organization_run_jobs",
                                   org_id |-> org_id, status |-> "redirect",
                                   to |-> "organizations"]
        /\ UNCHANGED <<jobStatus, activeRuns, passedOver>>
        /\ UNCHANGED besideRun

\* A job that is running is started again all the same.
MayStart_any(status) == TRUE

\* The Job status transition: only a job that is not already running may
\* be started.
MayStart(status) == status # "running"

\* tasks.rerun_jobs at work on one of the tasks handed over: its next job
\* is started when the status transition allows it, and passed over
\* otherwise.  Tasks are served in any order, one job at a time.
rerun_jobs ==
    \E i \in 1..Len(rerunQueue) :
        /\ rerunQueue[i] # <<>>
        /\ LET j == Head(rerunQueue[i])
           IN  /\ rerunQueue' = [rerunQueue EXCEPT ![i] = Tail(@)]
               /\ IF MayStart(jobStatus[j])
                  THEN /\ jobStatus' = [jobStatus EXCEPT ![j] = "running"]
                       /\ activeRuns' = [activeRuns EXCEPT ![j] = @ + 1]
                       /\ UNCHANGED passedOver
                  ELSE /\ passedOver' = passedOver \cup {j}
                       /\ UNCHANGED <<jobStatus, activeRuns>>
        /\ UNCHANGED <<messages, runResp, runRequests>>
        /\ UNCHANGED besideRun

\* A run of a job comes to its end.
job_finishes ==
    \E j \in DOMAIN jobStatus :
        /\ jobStatus[j] = "running"
        /\ activeRuns[j] > 0
        /\ activeRuns' = [activeRuns EXCEPT ![j] = @ - 1]
        /\ jobStatus' = [jobStatus EXCEPT ![j] =
                            IF activeRuns[j] = 1 THEN "available" ELSE @]
        /\ UNCHANGED <<rerunQueue, messages, runResp, runRequests,
                       passedOver>>
        /\ UNCHANGED besideRun

\* organization_stop_jobs: job.stop_job() on every job of the organization,
\* a danger message lists their names, redirect.
organization_stop_jobs ==
    \E org_id \in OrgIds :
        /\ runRequests < MaxRunRequests
        /\ runRequests' = runRequests + 1
        /\ IF org_id \notin DOMAIN orgs
           THEN /\ runResp' = [view |-> "organization_stop_jobs",
                               org_id |-> org_id, status |-> "exception",
                               to |-> NONE]
                /\ UNCHANGED <<jobStatus, activeRuns, messages>>
           ELSE LET js == all_jobs(org_id)
                    stopped == {js[i] : i \in 1..Len(js)}
                IN  /\ jobStatus' = [j \in DOMAIN jobStatus |->
                          IF j \in stopped /\ jobStatus[j] = "running"
                          THEN "cancelled" ELSE jobStatus[j]]
                    /\ activeRuns' = [j \in DOMAIN activeRuns |->
                          IF j \in stopped THEN 0 ELSE activeRuns[j]]
                    /\ messages' = Append(messages,
                          [html |-> "<p><strong>Stopped Job(s):</strong><br>"
                                    \o JoinBr([i \in 1..Len(js) |->
                                                  JobName(js[i])]) \o "</p>",
                           class |-> "danger"])
                    /\ runResp' = [view |-> "organization_stop_jobs",
                                   org_id |-> org_id, status |-> "redirect",
                                   to |-> "organizations"]
        /\ UNCHANGED <<rerunQueue, passedOver>>
        /\ UNCHANGED besideRun

(***************************************************************************)
(* Transformation Scenario views, as the tests of                          *)
(* tests/test_views/test_transformation.py drive them.                     *)
(***************************************************************************)
NoTsRequest == [view |-> "none", id |-> 0, form |-> <<>>]
NoTsResponse == [status |-> "none", to |-> NONE, errors |-> {},
                 content |-> NONE]

TransformationTypes == {"xslt", "openrefine", "python"}

\* The python kind offered whether or not the flag is set.
get_transformation_type_choices_ungated(enable_python) ==
    TransformationTypes

\* get_transformation_type_choices: the python kind is a valid choice only
\* when ENABLE_PYTHON is set.
get_transformation_type_choices(enable_python) ==
    IF enable_python THEN TransformationTypes
    ELSE TransformationTypes \ {"python"}

FormFields == {"name", "payload", "transformation_type"}

\* The errors of the transformation form bound to the submitted fields.
FormErrors(form, enable_python) ==
    {"This field is required." : f \in FormFields \ DOMAIN form}
    \cup
    (IF "transformation_type" \in DOMAIN form
        /\ form["transformation_type"] \notin
              get_transformation_type_choices(enable_python)
     THEN {"Select a valid choice. " \o form["transformation_type"]
            \o " is not one of the available choices."}
     ELSE {})

TsRedirect == [status |-> "redirect", to |-> "configuration",
               errors |-> {}, content |-> NONE]
TsForm(errors) == [status |-> "form", to |-> NONE, errors |-> errors,
                   content |-> NONE]
TsNotFound == [status |-> "not_found", to |-> NONE, errors |-> {},
               content |-> NONE]

\* The forms the requests submit.
TsNames == {"Test Transform", "Other Transform"}
TsForms ==
    {[name |-> n, payload |-> "some other payload",
      transformation_type |-> t] :
        n \in TsNames, t \in TransformationTypes \cup {"bogus"}}
    \cup {[payload |-> "some other payload"], <<>>}
TsIds == 1..(MaxTsRequests + 1)

\* create_transformation_scenario, POST
create_transformation_scenario ==
    \E form \in TsForms :
        /\ tsRequests < MaxTsRequests
        /\ tsRequests' = tsRequests + 1
        /\ tsReq' = [view |-> "create_transformation_scenario", id |-> 0,
                     form |-> form]
        /\ LET errors == FormErrors(form, ENABLE_PYTHON)
           IN  IF errors = {}
               THEN /\ lastTransformationId' = lastTransformationId + 1
                    /\ transformations' =
                          [i \in DOMAIN transformations
                                 \cup {lastTransformationId + 1} |->
                             IF i \in DOMAIN transformations
                             THEN transformations[i] ELSE form]
                    /\ tsResp' = TsRedirect
               ELSE /\ tsResp' = TsForm(errors)
                    /\ UNCHANGED <<transformations, lastTransformationId>>
        /\ UNCHANGED ENABLE_PYTHON
        /\ UNCHANGED besideTs

\* transformation_scenario, POST: the edit form of an existing row
transformation_scenario ==
    \E id \in TsIds, form \in TsForms :
        /\ tsRequests < MaxTsRequests
        /\ tsRequests' = tsRequests + 1
        /\ tsReq' = [view |-> "transformation_scenario", id |-> id,
                     form |-> form]
        /\ IF id \notin DOMAIN transformations
           THEN /\ tsResp' = TsNotFound
                /\ UNCHANGED transformations
           ELSE LET errors == FormErrors(form, ENABLE_PYTHON)
                IN  IF errors = {}
                    THEN /\ transformations' =
                               [transformations EXCEPT ![id] = form]
                         /\ tsResp' = TsRedirect
                    ELSE /\ tsResp' = TsForm(errors)
                         /\ UNCHANGED transformations
        /\ UNCHANGED <<ENABLE_PYTHON, lastTransformationId>>
        /\ UNCHANGED besideTs

\* A delete that looks the row up with get(), which raises for an id
\* without a row.
delete_row_get(table, id) ==
    IF id \in DOMAIN table
    THEN [table |-> [i \in DOMAIN table \ {id} |-> table[i]],
          raised |-> NONE]
    ELSE [table |-> table, raised |-> "DoesNotExist"]

\* The row with that id removed; nothing raised when there is none.
delete_row(table, id) ==
    [table |-> [i \in DOMAIN table \ {id} |-> table[i]], raised |-> NONE]

\* delete_transformation_scenario
delete_transformation_scenario ==
    \E id \in TsIds :
        /\ tsRequests < MaxTsRequests
        /\ tsRequests' = tsRequests + 1
        /\ tsReq' = [view |-> "delete_transformation_scenario", id |-> id,
                     form |-> <<>>]
        /\ LET deleted == delete_row(transformations, id)
           IN  /\ transformations' = deleted.table
               /\ tsResp' = IF deleted.raised = NONE THEN TsRedirect
                             ELSE [status |-> "exception", to |-> NONE,
                                   errors |-> {deleted.raised},
                                   content |-> NONE]
        /\ UNCHANGED <<ENABLE_PYTHON, lastTransformationId>>
        /\ UNCHANGED besideTs

\* transformation_scenario_payload, GET: the payload of the row as it is
transformation_scenario_payload ==
    \E id \in TsIds :
        /\ tsRequests < MaxTsRequests
        /\ tsRequests' = tsRequests + 1
        /\ tsReq' = [view |-> "transformation_scenario_payload", id |-> id,
                     form |-> <<>>]
        /\ tsResp' = IF id \in DOMAIN transformations
                      THEN [status |-> "content", to |-> NONE, errors |-> {},
                            content |-> transformations[id].payload]
                      ELSE TsNotFound
        /\ UNCHANGED <<ENABLE_PYTHON, transformations, lastTransformationId>>
        /\ UNCHANGED besideTs

(***************************************************************************)
(* Background-task views (app/core/views/core_background_tasks.py), the    *)
(* CombineBackgroundTask methods they call and the task queue.             *)
(***************************************************************************)
NoDeleteAll == [active |-> FALSE, ids |-> {}]
NoBgResponse == [view |-> "none", task_id |-> 0, status |-> "none",
                 to |-> NONE]
BgRedirect(view, task_id) ==
    [view |-> view, task_id |-> task_id, status |-> "redirect",
     to |-> "bg_tasks"]
BgDoesNotExist(view, task_id) ==
    [view |-> view, task_id |-> task_id, status |-> "exception", to |-> NONE]

RowIds(table) == {table[i].id : i \in 1..Len(table)}
QueuedIds == {queue[i].task_id : i \in 1..Len(queue)}
BgTaskIds == 1..(MaxDeleteRequests + 1)

\* CombineBackgroundTask.objects.get(pk=int(task_id))
ct_get(table, task_id) ==
    SelectSeq(table, LAMBDA ct : ct.id = task_id)

\* CombineBackgroundTask.update: the status is refreshed from the task
\* queue; the task is completed once the queue has run it.
ct_update(ct) ==
    [ct EXCEPT !.completed =
        ct.celery_task_id \notin QueuedIds \cup dropped]

\* CombineBackgroundTask.delete: the row goes.
ct_delete(table, ids) ==
    SelectSeq(table, LAMBDA ct : ct.id \notin ids)

\* Every row of the table, completed or not.
objects_all(table) == table

\* CombineBackgroundTask.objects.filter(completed=False)
nc_tasks(table) == SelectSeq(table, LAMBDA ct : ct.completed = FALSE)

\* bg_tasks: every task not marked as complete is updated
bg_tasks ==
    /\ bgRequests < MaxBgRequests
    /\ bgRequests' = bgRequests + 1
    /\ LET tasks == nc_tasks(bgTasks)
       IN  /\ updateCalls' = [i \in 1..Len(tasks) |-> tasks[i].id]
           /\ bgTasks' = [i \in 1..Len(bgTasks) |->
                             IF bgTasks[i].id \in RowIds(tasks)
                             THEN ct_update(bgTasks[i]) ELSE bgTasks[i]]
    /\ bgResp' = [view |-> "bg_tasks", task_id |-> 0, status |-> "page",
                  to |-> NONE]
    /\ UNCHANGED <<revoked, dropped, deleteAll, deletedRows>>
    /\ UNCHANGED <<orgs, recordGroups, jobs, jobRecords, queue, orgResp,
                   deleteRequests>>
    /\ UNCHANGED besideListing

\* bg_tasks_delete_all, first part: CombineBackgroundTask.objects.all() is
\* fetched when the loop over it begins.
bg_tasks_delete_all_fetch ==
    /\ bgRequests < MaxBgRequests
    /\ ~deleteAll.active
    /\ bgRequests' = bgRequests + 1
    /\ deleteAll' = [active |-> TRUE, ids |-> RowIds(bgTasks)]
    /\ bgResp' = [view |-> "bg_tasks_delete_all", task_id |-> 0,
                  status |-> "pending", to |-> NONE]
    /\ UNCHANGED <<revoked, dropped, deletedRows>>
    /\ UNCHANGED orgVars
    /\ UNCHANGED besideBg

\* bg_tasks_delete_all, the loop and the redirect: delete() on every row
\* fetched.
bg_tasks_delete_all ==
    /\ deleteAll.active
    /\ LET gone == {bgTasks[i] : i \in {k \in 1..Len(bgTasks) :
                                           bgTasks[k].id \in deleteAll.ids}}
       IN  /\ bgTasks' = ct_delete(bgTasks, deleteAll.ids)
           /\ revoked' = revoked \cup {ct.celery_task_id : ct \in gone}
           /\ deletedRows' = deletedRows \cup
                 {[id |-> ct.id,
                   cancelled |-> ct.celery_task_id \in revoked] : ct \in gone}
    /\ deleteAll' = NoDeleteAll
    /\ bgResp' = BgRedirect("bg_tasks_delete_all", 0)
    /\ UNCHANGED <<dropped, bgRequests>>
    /\ UNCHANGED <<orgs, recordGroups, jobs, jobRecords, queue, orgResp,
                   deleteRequests>>
    /\ UNCHANGED besideBg

\* bg_task_delete
bg_task_delete ==
    \E task_id \in BgTaskIds :
        /\ bgRequests < MaxBgRequests
        /\ bgRequests' = bgRequests + 1
        /\ LET found == ct_get(bgTasks, task_id)
           IN  IF found = <<>>
               THEN /\ bgResp' = BgDoesNotExist("bg_task_delete", task_id)
                    /\ UNCHANGED <<bgTasks, revoked, deletedRows>>
               ELSE /\ bgTasks' = ct_delete(bgTasks, {task_id})
                    /\ revoked' = revoked \cup {found[1].celery_task_id}
                    /\ deletedRows' = deletedRows \cup
                          {[id |-> task_id,
                            cancelled |-> found[1].celery_task_id
                                            \in revoked]}
                    /\ bgResp' = BgRedirect("bg_task_delete", task_id)
        /\ UNCHANGED <<dropped, deleteAll>>
        /\ UNCHANGED <<orgs, recordGroups, jobs, jobRecords, queue, orgResp,
                       deleteRequests>>
        /\ UNCHANGED besideBg

\* A cancel view that deletes the task it was to cancel.
bg_task_cancel_deleting ==
    \E task_id \in BgTaskIds :
        /\ bgRequests < MaxBgRequests
        /\ bgRequests' = bgRequests + 1
        /\ LET found == ct_get(bgTasks, task_id)
           IN  IF found = <<>>
               THEN /\ bgResp' = BgDoesNotExist("bg_task_cancel", task_id)
                    /\ UNCHANGED bgTasks
               ELSE /\ bgTasks' = ct_delete(bgTasks, {task_id})
                    /\ bgResp' = BgRedirect("bg_task_cancel", task_id)
        /\ UNCHANGED <<revoked, dropped, deleteAll, deletedRows>>
        /\ UNCHANGED <<orgs, recordGroups, jobs, jobRecords, queue, orgResp,
                       deleteRequests>>
        /\ UNCHANGED besideBg

\* bg_task_cancel: CombineBackgroundTask.cancel asks the queue to cancel
\* the task; the row is left as it is.
bg_task_cancel ==
    \E task_id \in BgTaskIds :
        /\ bgRequests < MaxBgRequests
        /\ bgRequests' = bgRequests + 1
        /\ LET found == ct_get(bgTasks, task_id)
           IN  IF found = <<>>
               THEN /\ bgResp' = BgDoesNotExist("bg_task_cancel", task_id)
                    /\ UNCHANGED revoked
               ELSE /\ revoked' = revoked \cup {found[1].celery_task_id}
                    /\ bgResp' = BgRedirect("bg_task_cancel", task_id)
        /\ UNCHANGED <<dropped, deleteAll, deletedRows>>
        /\ UNCHANGED orgVars
        /\ UNCHANGED besideBg

\* The queue heeds a cancellation it was asked for: a task still waiting
\* is given up.  It may as well be run before that happens.
queue_revokes ==
    \E i \in 1..Len(queue) :
        /\ queue[i].task_id \in revoked
        /\ queue' = SubSeq(queue, 1, i - 1) \o
                     SubSeq(queue, i + 1, Len(queue))
        /\ dropped' = dropped \cup {queue[i].task_id}
        /\ UNCHANGED <<revoked, deleteAll, deletedRows, bgResp, bgRequests>>
        /\ UNCHANGED <<orgs, recordGroups, jobs, jobRecords, bgTasks,
                       orgResp, deleteRequests>>
        /\ UNCHANGED besideBg

\* The characters that are delimiters to the mapping; every other symbol
\* is alphanumeric.
Punctuation == {"_", "|", ":", "@", "=", "(", ")", "#", "{", "}", "/", " "}

SiblingHashId == <<"sibling", "_", "hash", "_", "id">>
NoHash == [md5 |-> "", count |-> 0]
NoTable == <<>>

(***************************************************************************)
(* The XML <-> key/value mapping engine (app/core/xml2kvp.py).             *)
(*                                                                         *)
(* A Python str is a sequence of symbols: a symbol is a TLA+ string that   *)
(* stands for a run of characters holding no delimiter ("alligator",       *)
(* "medium") or for one delimiter character ("_", "|", ":", "@", "=",      *)
(* "(", ")", "#"), so that joining, splitting and matching work on the     *)
(* delimiters as the code does.  An XML element is a record                *)
(* [tag, attrib, text, children]: attrib is a sequence of <<name, value>>  *)
(* pairs, text is <<>> when there is none.  An entry of kvp_dict is        *)
(* [k, v, list]: v holds the values, list tells a list from a scalar.      *)
(***************************************************************************)
\* Python computes a value where it is assigned: what a step of a loop
\* leaves is looked at before the step after it begins.
assigned(value) == value = value

RECURSIVE join(_, _)
join(delim, parts) ==
    IF parts = <<>> THEN <<>>
    ELSE IF Len(parts) = 1 THEN parts[1]
    ELSE parts[1] \o <<delim>> \o join(delim, Tail(parts))

RECURSIVE split(_, _)
split(s, sep) ==
    IF \A i \in 1..Len(s) : s[i] # sep THEN <<s>>
    ELSE LET i == CHOOSE n \in 1..Len(s) :
                      s[n] = sep /\ \A j \in 1..(n - 1) : s[j] # sep
         IN  <<SubSeq(s, 1, i - 1)>> \o split(SubSeq(s, i + 1, Len(s)), sep)

replace(s, old, new) == [i \in 1..Len(s) |-> IF s[i] = old THEN new ELSE s[i]]

startswith(s, prefix) == Len(s) >= 1 /\ s[1] = prefix

RECURSIVE lstrip(_, _)
lstrip(s, ch) == IF startswith(s, ch) THEN lstrip(Tail(s), ch) ELSE s

\* str(value): the characters of a str run together (the argument of md5).
RECURSIVE str(_)
str(s) == IF s = <<>> THEN "" ELSE s[1] \o str(Tail(s))

\* str(n).zfill(2)
zfill2(n) == IF n < 10 THEN "0" \o ToString(n) ELSE ToString(n)

\* dict keys and values: an insertion-ordered dict is a sequence of
\* <<key, value>> pairs with distinct keys.
has_key(d, k) == \E i \in 1..Len(d) : d[i][1] = k

\* kvp_dict: k in kvp_dict.keys(), and where k is
has_entry(d, k) == \E i \in 1..Len(d) : d[i].k = k
entry_index(d, k) == CHOOSE i \in 1..Len(d) : d[i].k = k

(***************************************************************************)
(* xmltodict.parse(xml_string, xml_attribs=True): attributes become "@"    *)
(* keys, repeated child tags become one list under the key of their first  *)
(* occurrence, text beside attributes or children becomes "#text", an      *)
(* element with neither attributes nor children is its text or None.       *)
(***************************************************************************)
StrValue(s) == [type |-> "str", value |-> s]
NoneValue == [type |-> "None"]
ListValue(items) == [type |-> "list", items |-> items]
DictValue(items) == [type |-> "dict", items |-> items]

push(item, key, data) ==
    IF has_key(item, key)
    THEN [i \in 1..Len(item) |->
            IF item[i][1] # key THEN item[i]
            ELSE IF item[i][2].type = "list"
                 THEN <<key, ListValue(Append(item[i][2].items, data))>>
                 ELSE <<key, ListValue(<<item[i][2], data>>)>>]
    ELSE Append(item, <<key, data>>)

\* the children of an element: one key per tag, at the place of the tag's
\* first occurrence, a list where the tag is repeated
RECURSIVE xmltodict_element(_)
xmltodict_children(children) ==
    LET firsts == SelectSeq([i \in 1..Len(children) |-> i],
                            LAMBDA i : \A j \in 1..(i - 1) :
                                          children[j].tag # children[i].tag)
    IN  [n \in 1..Len(firsts) |->
            LET tag == children[firsts[n]].tag
                same == SelectSeq(children, LAMBDA c : c.tag = tag)
            IN  <<tag, IF Len(same) = 1 THEN xmltodict_element(same[1])
                       ELSE ListValue([j \in 1..Len(same) |->
                                          xmltodict_element(same[j])])>>]

xmltodict_element(e) ==
    LET attrs == [i \in 1..Len(e.attrib) |->
                    << <<"@">> \o e.attrib[i][1], StrValue(e.attrib[i][2]) >>]
        item == attrs \o xmltodict_children(e.children)
    IN  IF Len(item) = 0
        THEN IF Len(e.text) = 0 THEN NoneValue ELSE StrValue(e.text)
        ELSE DictValue(IF Len(e.text) = 0 THEN item
                       ELSE push(item, <<"#", "text">>, StrValue(e.text)))

xmltodict_parse(xml_input) ==
    DictValue(<< <<xml_input.tag, xmltodict_element(xml_input)>> >>)

(***************************************************************************)
(* hash(frozenset(keys)) and md5(...).hexdigest()[:4].  The hash of a      *)
(* frozenset of str depends on the keys, not on their order, and on the    *)
(* hash seed of the process (PYTHONHASHSEED): it is written as the seed    *)
(* and the set of keys.  md5 is taken as injective.                        *)
(***************************************************************************)
hash_frozenset(keys, process) ==
    "hash" \o ToString(process) \o "of" \o ToString({str(k) : k \in keys})

md5_4(hash_val) == "md5" \o hash_val

(***************************************************************************)
(* XML2kvp._sanitize_value                                                 *)
(***************************************************************************)
_sanitize_value(value) ==
    IF Len(value) > SANITIZE_LENGTH THEN SubSeq(value, 1, SANITIZE_LENGTH)
    ELSE value

(***************************************************************************)
(* _process_kvp, lines 480-516: the names a value is stored under.  False  *)
(* is the target that deletes; a pattern of copy_to_regex is a literal,    *)
(* which re.match finds at the start of a name and re.sub replaces         *)
(* wherever it occurs.  copy_value_to_regex stays empty.                   *)
(***************************************************************************)
False == <<"<False>">>

match(rk, s) == Len(s) >= Len(rk) /\ SubSeq(s, 1, Len(rk)) = rk

RECURSIVE sub(_, _, _)
sub(rk, rv, s) ==
    IF Len(s) < Len(rk) THEN s
    ELSE IF match(rk, s)
         THEN rv \o sub(rk, rv, SubSeq(s, Len(rk) + 1, Len(s)))
         ELSE <<Head(s)>> \o sub(rk, rv, Tail(s))

\* k_list.remove(k)
list_remove(k_list, k) ==
    LET i == CHOOSE n \in 1..Len(k_list) :
                 k_list[n] = k /\ \A j \in 1..(n - 1) : k_list[j] # k
    IN  SubSeq(k_list, 1, i - 1) \o SubSeq(k_list, i + 1, Len(k_list))

\* if self.remove_copied_key: if slen != len(k_list) and k in k_list
remove_copied(self, slen, k_list, k) ==
    IF /\ self.remove_copied_key
       /\ slen # Len(k_list)
       /\ \E i \in 1..Len(k_list) : k_list[i] = k
    THEN list_remove(k_list, k)
    ELSE k_list

\* lines 484-489
copy_to_keys(self, k_list, k) ==
    IF Len(self.copy_to) > 0
    THEN LET matching == SelectSeq(self.copy_to, LAMBDA item : item[1] = k)
         IN  remove_copied(self, Len(k_list),
                           k_list \o [i \in 1..Len(matching) |->
                                         matching[i][2]],
                           k)
    ELSE k_list

\* lines 498-512
RECURSIVE regex_copies(_, _, _)
regex_copies(items, k_list, k) ==
    IF items = <<>> \/ ~assigned(k_list) THEN k_list
    ELSE LET rk == Head(items)[1]
             rv == Head(items)[2]
         IN  regex_copies(
                 Tail(items),
                 IF rv = False
                 THEN IF match(rk, k) THEN Append(k_list, False) ELSE k_list
                 ELSE IF sub(rk, rv, k) # k
                      THEN Append(k_list, sub(rk, rv, k))
                      ELSE k_list,
                 k)

\* lines 492-516
copy_to_regex_keys(self, k_list, k) ==
    IF Len(self.copy_to_regex) > 0
    THEN remove_copied(self, Len(k_list),
                       regex_copies(self.copy_to_regex, k_list, k), k)
    ELSE k_list

(***************************************************************************)
(* XML2kvp._process_kvp, with self_describing off.                         *)
(***************************************************************************)
\* the suffix were the names already taken not looked at
suffix_count_unchecked(self, k, n) == n

\* lines 562-568: the first suffix no field of the mapping bears yet
RECURSIVE suffix_count(_, _, _)
suffix_count(self, k, n) ==
    IF has_entry(self.kvp_dict, k \o <<self.node_delim, "#", ToString(n)>>)
    THEN suffix_count(self, k, n + 1)
    ELSE n

\* lines 539-575: the value is stored under one name of k_list
store(self, k, value) ==
    LET d == self.kvp_dict
        at == entry_index(d, k)
    IN  IF k = False THEN self
        ELSE IF ~has_entry(d, k)
        THEN [self EXCEPT !.kvp_dict =
                 Append(d, [k |-> k, v |-> <<value>>, list |-> FALSE])]
        ELSE IF ~self.repeating_element_suffix_count /\ ~d[at].list
        THEN IF self.skip_repeating_values /\ value = d[at].v[1]
             THEN self
             ELSE [self EXCEPT !.kvp_dict[at] =
                      [k |-> k, v |-> <<d[at].v[1], value>>, list |-> TRUE]]
        ELSE IF self.repeating_element_suffix_count
        THEN [self EXCEPT !.kvp_dict =
                 Append(d, [k |-> k \o <<self.node_delim, "#",
                                         ToString(suffix_count(self, k, 1))>>,
                            v |-> <<value>>, list |-> FALSE])]
        ELSE IF ~self.skip_repeating_values
                \/ \A i \in 1..Len(d[at].v) : d[at].v[i] # value
             THEN [self EXCEPT !.kvp_dict[at].v = Append(d[at].v, value)]
             ELSE self

\* for k in k_list: ...
RECURSIVE store_all(_, _, _)
store_all(self, k_list, value) ==
    IF k_list = <<>> \/ ~assigned(self) THEN self
    ELSE store_all(store(self, Head(k_list), value), Tail(k_list), value)

_process_kvp(self, hops, raw) ==
    LET k == join(self.node_delim, hops)
    IN  store_all(self,
                  copy_to_regex_keys(self, copy_to_keys(self, <<k>>, k), k),
                  _sanitize_value(raw))

(***************************************************************************)
(* XML2kvp._check_delims_collision: an exception raised where a hop is     *)
(* formatted is carried as the last of the hops to the loop that called,   *)
(* which ends the walk with it.                                            *)
(***************************************************************************)
DelimiterCollision == <<"<DelimiterCollision>">>

raised(hops) == hops # <<>> /\ hops[Len(hops)] = DelimiterCollision

raise(self, hops) == [self EXCEPT !.raised = hops[Len(hops)][1]]

\* any(delim in value for delim in [self.node_delim, self.ns_prefix_delim])
_check_delims_collision(self, value) ==
    \E i \in 1..Len(value) : value[i] \in {self.node_delim, self.ns_prefix_delim}

(***************************************************************************)
(* XML2kvp._format_and_append_hop, with no exclude_elements or             *)
(* exclude_attributes configured.  An attribute's key begins with "@".     *)
(***************************************************************************)
_format_and_append_hop(self, hops, hop_type, k, v, sibling_hash) ==
    IF hop_type = "element"
    THEN IF self.error_on_delims_collision /\ _check_delims_collision(self, k)
         THEN Append(hops, DelimiterCollision)
         ELSE
         LET named == IF ~self.remove_ns_prefix
                      THEN replace(k, ":", self.ns_prefix_delim)
                      ELSE IF \E i \in 1..Len(k) : k[i] = ":"
                           THEN split(k, ":")[2]
                           ELSE k
             hop == IF self.include_sibling_id /\ sibling_hash.count % 100 >= 1
                    THEN named \o <<"(", sibling_hash.md5,
                                    zfill2(sibling_hash.count), ")">>
                    ELSE named
         IN  Append(hops, hop)
    ELSE IF self.skip_attribute_ns_declarations
            /\ Len(k) >= 2 /\ k[2] \in {"xmlns", "xsi"}
         THEN hops
         ELSE IF /\ self.error_on_delims_collision
                 /\ \/ _check_delims_collision(self, k)
                    \/ _check_delims_collision(self, v)
         THEN Append(hops, DelimiterCollision)
         ELSE Append(hops, replace(k, ":", self.ns_prefix_delim) \o <<"=">> \o v)

(***************************************************************************)
(* XML2kvp._xml_dict_parser.  in_k is <<>> for None.  The loops thread     *)
(* the handler; hops is cut back to hop_len after every child.             *)
(***************************************************************************)

RECURSIVE _xml_dict_parser(_, _, _, _, _)
RECURSIVE parse_attributes(_, _, _)
RECURSIVE parse_item(_, _, _, _, _, _)
RECURSIVE parse_items(_, _, _, _, _)
RECURSIVE parse_list(_, _, _, _)

parse_attributes(self, items, hops) ==
    IF items = <<>> \/ raised(hops) THEN hops
    ELSE parse_attributes(self, Tail(items),
             IF startswith(Head(items)[1], "@") /\ self.include_all_attributes
             THEN _format_and_append_hop(self, hops, "attribute",
                                         Head(items)[1], Head(items)[2].value,
                                         NoHash)
             ELSE hops)

\* lines 358-374: the body of the loop over the remaining nodes
parse_item(self, k, v, hops, sibling_hash, process) ==
    IF k = <<"#", "text">> THEN _process_kvp(self, hops, v.value)
    ELSE IF ~startswith(k, "@")
    THEN _xml_dict_parser(self, k, v,
             _format_and_append_hop(self, hops, "element", k, <<>>,
                                    sibling_hash),
             process)
    ELSE self

parse_items(self, items, hops, sibling_hash, process) ==
    IF raised(hops) THEN raise(self, hops)
    ELSE IF items = <<>> \/ self.raised # "" THEN self
    ELSE parse_items(parse_item(self, Head(items)[1], Head(items)[2], hops,
                                sibling_hash, process),
                     Tail(items), hops, sibling_hash, process)

parse_list(self, in_v, hops, process) ==
    IF in_v = <<>> \/ self.raised # "" THEN self
    ELSE parse_list(_xml_dict_parser(self, <<>>, Head(in_v), hops, process),
                    Tail(in_v), hops, process)

_xml_dict_parser(self, in_k, in_v, hops, process) ==
    IF raised(hops) THEN raise(self, hops)
    ELSE IF in_v.type = "dict"
    THEN LET hash_val == IF in_k # <<>> THEN str(in_k)
                         ELSE hash_frozenset({in_v.items[i][1] :
                                                  i \in 1..Len(in_v.items)},
                                             process)
             counter == self.sibling_hash_counter
             count == IF hash_val \in DOMAIN counter THEN counter[hash_val] + 1
                      ELSE 1
             counted == [self EXCEPT !.sibling_hash_counter =
                            [h \in DOMAIN counter \cup {hash_val} |->
                                IF h = hash_val THEN count ELSE counter[h]]]
             sibling_hash == [md5 |-> md5_4(hash_val), count |-> count]
         IN  parse_items(counted, in_v.items,
                         parse_attributes(counted, in_v.items, hops),
                         sibling_hash, process)
    ELSE IF in_v.type = "list"
    THEN parse_list(self, in_v.items, hops, process)
    ELSE IF in_v.type = "str"
    THEN IF in_k # <<"#", "text">> THEN _process_kvp(self, hops, in_v.value)
         ELSE self
    ELSE self

(***************************************************************************)
(* XML2kvp._split_and_concat_fields, with the all-fields options; a        *)
(* delimiter that is not configured is the empty string, which is false    *)
(* as the default False is.                                                *)
(***************************************************************************)
_split_and_concat_fields(self) ==
    LET concat == self.concat_values_on_all_fields
        sep == self.split_values_on_all_fields
        concatenated ==
            [i \in 1..Len(self.kvp_dict) |->
                LET e == self.kvp_dict[i]
                IN  IF concat # "" /\ e.list
                    THEN [e EXCEPT !.v = <<join(concat, e.v)>>, !.list = FALSE]
                    ELSE e]
    IN  [self EXCEPT !.kvp_dict =
            [i \in 1..Len(concatenated) |->
                LET e == concatenated[i]
                IN  IF sep # "" /\ ~e.list
                    THEN [e EXCEPT !.v = split(e.v[1], sep), !.list = TRUE]
                    ELSE e]]

(***************************************************************************)
(* XML2kvp.xml_to_kvp(xml_input, handler=handler): kvp_dict is cleared,    *)
(* sibling_hash_counter is what the handler holds; the literals of         *)
(* add_literals are stored as configured.  An exception of the walk ends   *)
(* the call: the handler is left as the walk left it.                      *)
(***************************************************************************)
RECURSIVE add_literals(_, _)
add_literals(d, literals) ==
    IF literals = <<>> THEN d
    ELSE LET k == Head(literals)[1]
             e == [k |-> k, v |-> <<Head(literals)[2]>>, list |-> FALSE]
         IN  add_literals(IF has_entry(d, k)
                          THEN [d EXCEPT ![entry_index(d, k)] = e]
                          ELSE Append(d, e),
                          Tail(literals))

xml_to_kvp(xml_input, handler, process) ==
    LET cleaned == [handler EXCEPT !.kvp_dict = <<>>]
        walked == _xml_dict_parser(cleaned, <<>>, xmltodict_parse(xml_input),
                                   <<>>, process)
        mixed == [walked EXCEPT !.kvp_dict =
                     add_literals(walked.kvp_dict, handler.add_literals)]
    IN  IF walked.raised # "" THEN walked
        ELSE _split_and_concat_fields(mixed)

(***************************************************************************)
(* lxml elements.  A tree under construction is a table of elements,       *)
(* an element's identity is its index in the table; parent is 0 for an     *)
(* element that is not attached.  append moves an element that already     *)
(* has a parent, as lxml does.                                             *)
(***************************************************************************)
Element(tag_name) ==
    [tag |-> tag_name, attrib |-> <<>>, text |-> <<>>, parent |-> 0,
     children |-> <<>>]

without(ids, id) == SelectSeq(ids, LAMBDA c : c # id)

remove(t, parent, child) ==
    [t EXCEPT ![parent].children = without(t[parent].children, child),
              ![child].parent = 0]

append(t, parent, child) ==
    LET detached == IF t[child].parent = 0 THEN t
                    ELSE remove(t, t[child].parent, child)
    IN  [detached EXCEPT ![parent].children = Append(@, child),
                         ![child].parent = parent]

getchildren(t, node) == t[node].children

\* node.iterdescendants(): the elements below node in document order
RECURSIVE iterall(_, _)
iterall(t, ids) ==
    IF ids = <<>> THEN <<>>
    ELSE IF Len(ids) = 1 THEN ids \o iterall(t, t[ids[1]].children)
    ELSE iterall(t, SubSeq(ids, 1, Len(ids) \div 2))
         \o iterall(t, SubSeq(ids, Len(ids) \div 2 + 1, Len(ids)))

iterdescendants(t, node) == iterall(t, t[node].children)

reverse(s) == [i \in 1..Len(s) |-> s[Len(s) + 1 - i]]

has_attrib(t, node, name) == has_key(t[node].attrib, name)

attrib_get(t, node, name) ==
    t[node].attrib[CHOOSE i \in 1..Len(t[node].attrib) :
                       t[node].attrib[i][1] = name][2]

RECURSIVE getroot(_, _)
getroot(t, node) == IF t[node].parent = 0 THEN node ELSE getroot(t, t[node].parent)

\* root_node.xpath('//*[@sibling_hash_id]') and
\* root_node.xpath('//*[@sibling_hash_id="<hash>"]'): document order, from
\* the top of the tree root_node is in.
xpath_sibling_hash_id(t, root_node) ==
    LET top == getroot(t, root_node)
    IN  SelectSeq(<<top>> \o iterdescendants(t, top),
                  LAMBDA n : has_attrib(t, n, SiblingHashId))

xpath_sibling_hash(t, root_node, sibling_hash) ==
    SelectSeq(xpath_sibling_hash_id(t, root_node),
              LAMBDA n : attrib_get(t, n, SiblingHashId) = sibling_hash)

(***************************************************************************)
(* sibling_hash_regex = (.+?)\(([0-9a-zA-Z]+)\)|(.+) under re.match: the   *)
(* shortest non-empty lead that is followed by "(", a run of               *)
(* alphanumerics and ")"; failing that, the whole name.                    *)
(***************************************************************************)
IsAlnum(symbol) == symbol \notin Punctuation

HashEnd(s, open) ==
    IF \E j \in (open + 1)..Len(s) : ~IsAlnum(s[j])
    THEN CHOOSE j \in (open + 1)..Len(s) :
             ~IsAlnum(s[j]) /\ \A x \in (open + 1)..(j - 1) : IsAlnum(s[x])
    ELSE 0

HashOpens(s) ==
    {i \in 2..Len(s) : /\ s[i] = "("
                       /\ HashEnd(s, i) > i + 1
                       /\ s[HashEnd(s, i)] = ")"}

sibling_hash_regex(s) ==
    IF HashOpens(s) # {}
    THEN LET open == CHOOSE i \in HashOpens(s) : \A j \in HashOpens(s) : i <= j
         IN  [tag_name |-> SubSeq(s, 1, open - 1),
              sibling_hash |-> SubSeq(s, open + 1, HashEnd(s, open) - 1)]
    ELSE [tag_name |-> s, sibling_hash |-> <<>>]

(***************************************************************************)
(* XML2kvp.kvp_to_xml, with no add_element_root.  An operator that can     *)
(* raise returns a record whose raised field names the exception ("" for   *)
(* none).  etree.Element rejects a tag that is not an XML name.            *)
(***************************************************************************)
has_nsmap(handler) == "nsmap" \in DOMAIN handler

ValidTag(tag_name) ==
    /\ Len(tag_name) > 0
    /\ \/ \A i \in 1..Len(tag_name) : IsAlnum(tag_name[i])
       \/ /\ Len(tag_name) > 3
          /\ tag_name[1] = "{" /\ tag_name[3] = "}"
          /\ \A i \in 4..Len(tag_name) : IsAlnum(tag_name[i])

Raised(exception) == [raised |-> exception]

\* lines 765-778: the tag name of a path segment
kvp_to_xml_tag(handler, node) ==
    IF \E i \in 1..Len(node) : node[i] = handler.ns_prefix_delim
    THEN LET parts == split(node, handler.ns_prefix_delim)
         IN  IF Len(parts) # 2 THEN Raised("ValueError")
             ELSE IF ~has_nsmap(handler) THEN Raised("AttributeError")
             ELSE IF str(parts[1]) \notin DOMAIN handler.nsmap
             THEN Raised("KeyError")
             ELSE [raised |-> "",
                   tag_name |-> <<"{", handler.nsmap[str(parts[1])], "}">>
                                \o parts[2]]
    ELSE [raised |-> "", tag_name |-> node]

\* lines 801-812: the attribute segments that follow segment i
RECURSIVE kvp_to_xml_attribs(_, _)
kvp_to_xml_attribs(nodes, i) ==
    IF i > Len(nodes) \/ ~startswith(nodes[i], "@")
    THEN [raised |-> "", attribs |-> <<>>]
    ELSE LET parts == split(nodes[i], "=")
             rest == kvp_to_xml_attribs(nodes, i + 1)
             name == lstrip(parts[1], "@")
         IN  IF Len(parts) # 2 THEN Raised("ValueError")
             ELSE IF rest.raised # "" THEN rest
             ELSE [raised |-> "",
                   attribs |-> IF has_key(rest.attribs, name)
                               THEN rest.attribs
                               ELSE <<<<name, parts[2]>>>> \o rest.attribs]

\* lines 762-818: the element of path segment i
kvp_to_xml_node(handler, nodes, i) ==
    LET named == kvp_to_xml_tag(handler, nodes[i])
        matched == IF handler.include_sibling_id
                   THEN sibling_hash_regex(named.tag_name)
                   ELSE [tag_name |-> named.tag_name, sibling_hash |-> <<>>]
        hashed == IF matched.sibling_hash = <<>> THEN <<>>
                  ELSE <<<<SiblingHashId, matched.sibling_hash>>>>
        attribs == kvp_to_xml_attribs(nodes, i + 1)
    IN  IF named.raised # "" THEN named
        ELSE IF ~has_nsmap(handler) THEN Raised("AttributeError")
        ELSE IF ~ValidTag(matched.tag_name) THEN Raised("ValueError")
        ELSE IF attribs.raised # "" THEN attribs
        ELSE [raised |-> "",
              element |-> [Element(matched.tag_name) EXCEPT !.attrib =
                              hashed \o attribs.attribs]]

\* lines 759-818: the elements of the path segments from segment i on,
\* until one raises
RECURSIVE kvp_to_xml_hops(_, _, _, _)
kvp_to_xml_hops(handler, nodes, i, built) ==
    IF i > Len(nodes) \/ built.raised # "" THEN built
    ELSE kvp_to_xml_hops(handler, nodes, i + 1,
             IF startswith(nodes[i], "@") THEN built
             ELSE LET node_ele == kvp_to_xml_node(handler, nodes, i)
                  IN  IF node_ele.raised # "" THEN node_ele
                      ELSE [built EXCEPT !.hops = Append(@, node_ele.element)])

\* lines 823-859: the values of an entry, one node list each
kvp_to_xml_values(handler, entry) ==
    IF ~entry.list
       /\ \E i \in 1..Len(entry.v[1]) : entry.v[1][i] = handler.multivalue_delim
    THEN split(entry.v[1], handler.multivalue_delim)
    ELSE entry.v

RECURSIVE add_node_lists(_, _, _)
add_node_lists(xml_record, hops, values) ==
    IF values = <<>> THEN xml_record
    ELSE LET first == Len(xml_record.table)
             made == [i \in 1..Len(hops) |->
                         IF i = Len(hops)
                         THEN [hops[i] EXCEPT !.text = Head(values)]
                         ELSE hops[i]]
         IN  add_node_lists(
                 [xml_record EXCEPT
                     !.table = @ \o made,
                     !.node_lists = Append(@, [i \in 1..Len(hops) |-> first + i])],
                 hops, Tail(values))

\* lines 752-859: the node lists of one entry
kvp_to_xml_item(handler, entry, xml_record) ==
    LET built == kvp_to_xml_hops(handler, split(entry.k, handler.node_delim), 1,
                                 [raised |-> "", hops |-> <<>>])
    IN  IF built.raised # "" THEN [xml_record EXCEPT !.raised = built.raised]
        ELSE IF built.hops = <<>>
        THEN [xml_record EXCEPT !.raised = "IndexError"]
        ELSE add_node_lists(xml_record, built.hops,
                            kvp_to_xml_values(handler, entry))

RECURSIVE kvp_to_xml_items(_, _, _)
kvp_to_xml_items(handler, kvp, xml_record) ==
    IF kvp = <<>> \/ xml_record.raised # "" THEN xml_record
    ELSE kvp_to_xml_items(handler, Tail(kvp),
                          kvp_to_xml_item(handler, Head(kvp), xml_record))

(***************************************************************************)
(* XMLRecord                                                               *)
(***************************************************************************)
XMLRecord ==
    [raised |-> "", table |-> <<>>, root_node |-> 0, node_lists |-> <<>>,
     nodes |-> <<>>]

RECURSIVE tether_node_list(_, _, _)
tether_node_list(t, node_list, i) ==
    IF i > Len(node_list) \/ ~assigned(t) THEN t
    ELSE tether_node_list(append(t, node_list[i - 1], node_list[i]),
                          node_list, i + 1)

RECURSIVE tether_node_lists(_, _)
tether_node_lists(xml_record, i) ==
    IF i > Len(xml_record.node_lists) THEN xml_record
    ELSE tether_node_lists(
             [xml_record EXCEPT
                 !.table = tether_node_list(@, xml_record.node_lists[i], 2),
                 !.nodes = Append(@, xml_record.node_lists[i][1])],
             i + 1)

RECURSIVE append_all(_, _, _)
append_all(t, parent, children) ==
    IF children = <<>> \/ ~assigned(t) THEN t
    ELSE append_all(append(t, parent, Head(children)), parent, Tail(children))

\* lines 1166-1177: the children of one more root go under the first
merge_root_node(t, root_node, node) ==
    LET children == getchildren(t, node)
        moved == append_all(t, root_node, children)
    IN  IF Len(children) = 0 /\ t[node].tag # t[root_node].tag
        THEN append(moved, root_node, node)
        ELSE moved

RECURSIVE merge_root_node_list(_, _, _)
merge_root_node_list(t, root_node, node_list) ==
    IF node_list = <<>> \/ ~assigned(t) THEN t
    ELSE merge_root_node_list(merge_root_node(t, root_node, Head(node_list)),
                              root_node, Tail(node_list))

merge_root_nodes(xml_record) ==
    IF xml_record.nodes = <<>> THEN [xml_record EXCEPT !.raised = "IndexError"]
    ELSE LET root_node == xml_record.nodes[1]
         IN  [xml_record EXCEPT
                 !.root_node = root_node,
                 !.table = merge_root_node_list(@, root_node,
                                                Tail(xml_record.nodes))]

\* XMLRecord._siblings_xpath_merge, remove_empty_nodes=True; the table is
\* NoTable once None.append or None.remove has raised AttributeError.
\* lines 1245-1260: one sibling moves under the target parent
move_sibling(t, target_parent, sibling) ==
    LET parent == t[sibling].parent
        moved == append(t, target_parent, sibling)
    IN  IF target_parent = 0 THEN NoTable
        ELSE IF parent # 0 /\ Len(getchildren(moved, parent)) = 0
        THEN IF moved[parent].parent = 0 THEN NoTable
             ELSE remove(moved, moved[parent].parent, parent)
        ELSE moved

RECURSIVE move_siblings(_, _, _)
move_siblings(t, target_parent, siblings) ==
    IF siblings = <<>> \/ t = NoTable THEN t
    ELSE move_siblings(move_sibling(t, target_parent, Head(siblings)),
                       target_parent, Tail(siblings))

_siblings_xpath_merge(t, root_node, sibling_hash) ==
    LET siblings == xpath_sibling_hash(t, root_node, sibling_hash)
    IN  IF Len(siblings) > 0
        THEN move_siblings(t, t[siblings[1]].parent, Tail(siblings))
        ELSE t

RECURSIVE merge_nodes(_, _, _)
merge_nodes(t, root_node, nodes) ==
    IF nodes = <<>> \/ t = NoTable THEN t
    ELSE merge_nodes(
             IF has_attrib(t, Head(nodes), SiblingHashId)
             THEN _siblings_xpath_merge(t, root_node,
                      attrib_get(t, Head(nodes), SiblingHashId))
             ELSE t,
             root_node, Tail(nodes))

RECURSIVE merge_node_paths(_, _, _)
merge_node_paths(t, root_node, node_paths) ==
    IF node_paths = <<>> \/ t = NoTable THEN t
    ELSE merge_node_paths(
             merge_nodes(t, root_node,
                         reverse(iterdescendants(t, Head(node_paths)))),
             root_node, Tail(node_paths))

merge_siblings(xml_record) ==
    LET root_node == xml_record.root_node
        merged == merge_node_paths(xml_record.table, root_node,
                                   getchildren(xml_record.table, root_node))
        all_siblings == xpath_sibling_hash_id(merged, root_node)
    IN  IF merged = NoTable THEN [xml_record EXCEPT !.raised = "AttributeError"]
        ELSE [xml_record EXCEPT !.table =
                 [n \in 1..Len(merged) |->
                     IF \E i \in 1..Len(all_siblings) : all_siblings[i] = n
                     THEN [merged[n] EXCEPT !.attrib =
                              SelectSeq(@, LAMBDA a : a[1] # SiblingHashId)]
                     ELSE merged[n]]]

kvp_to_xml(kvp, handler) ==
    LET listed == kvp_to_xml_items(handler, kvp, XMLRecord)
        tethered == tether_node_lists(listed, 1)
        rooted == merge_root_nodes(tethered)
    IN  IF listed.raised # "" THEN listed
        ELSE IF rooted.raised # "" \/ ~handler.include_sibling_id THEN rooted
        ELSE merge_siblings(rooted)

(***************************************************************************)
(* etree.tostring of the reconstructed tree, read back as a document: a    *)
(* tag in a namespace is written with the prefix nsmap gives it.           *)
(***************************************************************************)
qname(nsmap, tag_name) ==
    IF Len(tag_name) > 3 /\ tag_name[1] = "{"
    THEN <<CHOOSE prefix \in DOMAIN nsmap : nsmap[prefix] = tag_name[2], ":">>
         \o SubSeq(tag_name, 4, Len(tag_name))
    ELSE tag_name

RECURSIVE tostring(_, _, _)
tostring(t, nsmap, node) ==
    [tag |-> qname(nsmap, t[node].tag),
     attrib |-> t[node].attrib,
     text |-> t[node].text,
     children |-> [i \in 1..Len(t[node].children) |->
                      tostring(t, nsmap, t[node].children[i])]]

(***************************************************************************)
(* XML2kvp.__init__: the defaults, overwritten by the keyword arguments;   *)
(* nsmap is an attribute of the handler only when it is passed.  raised    *)
(* is the exception a call on the handler ended with, "" for none.         *)
(***************************************************************************)
Defaults ==
    [add_literals |-> <<>>,
     concat_values_on_all_fields |-> "",
     copy_to |-> <<>>,
     copy_to_regex |-> <<>>,
     error_on_delims_collision |-> FALSE,
     include_all_attributes |-> FALSE,
     include_sibling_id |-> FALSE,
     multivalue_delim |-> "|",
     node_delim |-> "_",
     ns_prefix_delim |-> "|",
     remove_copied_key |-> TRUE,
     remove_ns_prefix |-> TRUE,
     split_values_on_all_fields |-> "",
     skip_attribute_ns_declarations |-> TRUE,
     skip_repeating_values |-> TRUE,
     repeating_element_suffix_count |-> FALSE]

XML2kvp(kwargs) ==
    [a \in DOMAIN Defaults \cup DOMAIN kwargs
           \cup {"kvp_dict", "sibling_hash_counter", "raised"} |->
        IF a = "kvp_dict" THEN <<>>
        ELSE IF a = "raised" THEN ""
        ELSE IF a = "sibling_hash_counter" THEN [h \in {} |-> 0]
        ELSE IF a \in DOMAIN kwargs THEN kwargs[a]
        ELSE Defaults[a]]

(***************************************************************************)
(* The documents and configurations the mapping is run on.                 *)
(***************************************************************************)
Leaf(tag, text) ==
    [tag |-> tag, attrib |-> <<>>, text |-> text, children |-> <<>>]
Node(tag, attrib, children) ==
    [tag |-> tag, attrib |-> attrib, text |-> <<>>, children |-> children]

AlligatorShapes ==
    {<<Leaf(<<"tail">>, <<"medium">>)>>,
     <<Leaf(<<"tail">>, <<"long">>), Leaf(<<"legs">>, <<"short">>)>>}

Alligators ==
    {[i \in 1..n |-> Node(<<"alligator">>, <<>>, shapes[i])] :
        n \in 1..MaxSiblings, shapes \in [1..MaxSiblings -> AlligatorShapes]}

Beat ==
    [tag |-> <<"beat">>, attrib |-> << <<<<"type">>, <<"4", "/", "4">>>> >>,
     text |-> <<"waltz">>, children |-> <<>>]

Url ==
    [tag |-> <<"internet", ":", "url">>,
     attrib |-> << <<<<"url">>, <<"http://example.com">>>> >>,
     text |-> <<"see">>, children |-> <<>>]

Pattern ==
    Node(<<"pattern">>, << <<<<"pattern", "_", "type">>, <<"striped">>>> >>,
         <<Leaf(<<"application">>, <<"streets">>)>>)

Extras == {<<>>, <<Beat, Url>>, <<Beat, Url, Pattern>>}

NSMAP == [prefix \in {"internet"} |-> "http://internet.com"]

Root(children) ==
    Node(<<"root">>,
         << <<<<"xmlns", ":", "internet">>, <<"http://internet.com">>>> >>,
         children)

Documents ==
    {Root(alligators \o extra) : alligators \in Alligators, extra \in Extras}
    \cup {Root(<<Node(<<"zoo">>, <<>>, alligators)>> \o extra) :
              alligators \in Alligators, extra \in Extras}

Options ==
    [include_sibling_id : BOOLEAN, include_all_attributes : BOOLEAN,
     repeating_element_suffix_count : BOOLEAN, skip_repeating_values : BOOLEAN]

WithNsmap(options) ==
    [a \in DOMAIN options \cup {"nsmap"} |->
        IF a = "nsmap" THEN NSMAP ELSE options[a]]

Kwargs == Options \cup {WithNsmap(options) : options \in Options}

NoMapping == <<>>
NotAgain == [how |-> "", kvp |-> NoMapping]

\* kvp = XML2kvp.xml_to_kvp(xml_input, handler=handler), on a handler made
\* from the keyword arguments; nothing is assigned to kvp when the call
\* raises
map_document ==
    /\ kvpStage = "document"
    /\ kvpHandler' = xml_to_kvp(xmlDoc, XML2kvp(config), hashSeed)
    /\ kvpDict' = IF kvpHandler'.raised # "" THEN NoMapping
                  ELSE kvpHandler'.kvp_dict
    /\ kvpStage' = IF kvpHandler'.raised # "" THEN "raised" ELSE "mapped"
    /\ UNCHANGED <<xmlDoc, config, hashSeed, kvpAgain, xmlRecord, kvpRemapped>>
    /\ UNCHANGED besideKvp

\* the same document mapped once more: on the handler of the first call,
\* on a new handler, or on a new handler in another process
map_again ==
    /\ kvpStage = "mapped"
    /\ \E how \in {"handler", "kwargs", "process"} :
       \E seed \in 1..MaxHashSeeds :
          /\ how # "process" => seed = hashSeed
          /\ hashSeed' = seed
          /\ kvpHandler' = xml_to_kvp(xmlDoc,
                                   IF how = "handler" THEN kvpHandler
                                   ELSE XML2kvp(config),
                                   seed)
          /\ kvpAgain' = [how |-> how, kvp |-> kvpHandler'.kvp_dict]
    /\ kvpStage' = "again"
    /\ UNCHANGED <<xmlDoc, config, kvpDict, xmlRecord, kvpRemapped>>
    /\ UNCHANGED besideKvp

\* xml_record = XML2kvp.kvp_to_xml(kvp, **kwargs)
reconstruct ==
    /\ kvpStage = "mapped"
    /\ xmlRecord' = kvp_to_xml(kvpDict, XML2kvp(config))
    /\ kvpStage' = "reconstructed"
    /\ UNCHANGED <<xmlDoc, config, kvpHandler, hashSeed, kvpDict, kvpAgain, kvpRemapped>>
    /\ UNCHANGED besideKvp

\* XML2kvp.xml_to_kvp(xml_record.serialize(), **kwargs)
remap ==
    /\ kvpStage = "reconstructed"
    /\ xmlRecord.raised = ""
    /\ kvpRemapped' = xml_to_kvp(tostring(xmlRecord.table, config.nsmap,
                                       xmlRecord.root_node),
                              XML2kvp(config), hashSeed).kvp_dict
    /\ kvpStage' = "remapped"
    /\ UNCHANGED <<xmlDoc, config, kvpHandler, hashSeed, kvpDict, kvpAgain, xmlRecord>>
    /\ UNCHANGED besideKvp

(***************************************************************************)
(* Documents and configurations of copied fields: a, b and c under the     *)
(* root, a once or twice, c with an a of its own.                          *)
(***************************************************************************)
CopyDocuments ==
    {Node(<<"root">>, <<>>, children) :
        children \in
            {<<Leaf(<<"a">>, <<"1">>)>>,
             <<Leaf(<<"a">>, <<"1">>), Leaf(<<"b">>, <<"2">>)>>,
             <<Leaf(<<"a">>, <<"1">>), Leaf(<<"a">>, <<"3">>),
               Leaf(<<"b">>, <<"2">>)>>,
             <<Leaf(<<"b">>, <<"2">>),
               Node(<<"c">>, <<>>, <<Leaf(<<"a">>, <<"1">>)>>)>>}}

CopyKwargs ==
    [copy_to : {<<>>,
                << <<<<"root", "_", "a">>, False>> >>,
                << <<<<"root", "_", "a">>, <<"x">>>> >>},
     copy_to_regex : {<<>>,
                      << <<<<"root", "_", "a">>, False>> >>,
                      << <<<<"root", "_", "c">>, False>>,
                         <<<<"root">>, <<"top">>>> >>,
                      << <<<<"root", "_", "b">>, <<"y">>>> >>},
     remove_copied_key : BOOLEAN]

(***************************************************************************)
(* Documents and configurations of delimiter collisions: a root with one   *)
(* child; the names, the child's attribute and its text hold a delimiter   *)
(* or none.                                                                *)
(***************************************************************************)
CollisionNames == {<<"a">>, <<"a", "_", "b">>}

CollisionAttributes ==
    {<<>>,
     << <<<<"x">>, <<"1">>>> >>,
     << <<<<"x", "_", "y">>, <<"1">>>> >>,
     << <<<<"x">>, <<"1", "_", "2">>>> >>,
     << <<<<"x">>, <<"1", "|", "2">>>> >>,
     << <<<<"xmlns", ":", "p", "_", "q">>, <<"u">>>> >>}

CollisionDocuments ==
    {Node(root, <<>>,
          <<[tag |-> name, attrib |-> attrib, text |-> text,
             children |-> <<>>]>>) :
        root \in {<<"root">>, <<"r", "_", "t">>}, name \in CollisionNames,
        attrib \in CollisionAttributes,
        text \in {<<"1">>, <<"1", "_", "2">>}}

CollisionKwargs ==
    [error_on_delims_collision : BOOLEAN, include_all_attributes : BOOLEAN]

(***************************************************************************)
(* Documents of long values: one field, its values as long as the          *)
(* sanitizer's limit, longer by one, or short with a "," to split on.      *)
(***************************************************************************)
Chars(n) == [i \in 1..n |-> "x"]

Texts == {<<"x", ",", "y">>, Chars(SANITIZE_LENGTH), Chars(SANITIZE_LENGTH + 1)}

LongDocuments ==
    {Node(<<"root">>, <<>>, [i \in 1..n |-> Leaf(<<"a">>, texts[i])]) :
        n \in 1..MaxValues, texts \in [1..MaxValues -> Texts]}

Literals ==
    {<<>>, << <<<<"literal">>, Chars(SANITIZE_LENGTH + 1)>> >>}

SanitizeKwargs ==
    [add_literals : Literals,
     concat_values_on_all_fields : {"", "|"},
     split_values_on_all_fields : {"", ","}]

(***************************************************************************)
(* ESIndex (app/core/models/elasticsearch.py). The cluster maps the name   *)
(* of an index to whether it exists, its document count and its mappings;  *)
(* a field name is a Python str, here the sequence of its characters.      *)
(* Ratios are counted in ten-thousandths, the four decimals round() keeps. *)
(***************************************************************************)
\* The characters of the field names, in the order of their code points.
CodePoints ==
    <<"2", "Z", "_", "a", "b", "c", "d", "e", "f", "g", "i", "k", "l", "m",
      "n", "o", "p", "r", "t", "v", "x">>

ord(c) == CHOOSE i \in 1..Len(CodePoints) : CodePoints[i] = c

\* a < b on two str: by the first character they differ in, a prefix first.
str_lt(a, b) ==
    \E i \in 1..(Min(Len(a), Len(b)) + 1) :
        /\ \A j \in 1..(i - 1) : a[j] = b[j]
        /\ i <= Len(b)
        /\ (i <= Len(a) => ord(a[i]) < ord(b[i]))

db_id == <<"d", "b", "_", "i", "d">>
combine_id == <<"c", "o", "m", "b", "i", "n", "e", "_", "i", "d">>
xml2kvp_meta == <<"x", "m", "l", "2", "k", "v", "p", "_", "m", "e", "t", "a">>
fingerprint == <<"f", "i", "n", "g", "e", "r", "p", "r", "i", "n", "t">>

\* ESIndex.__init__: a single index name becomes a list of one.
ESIndex(es_index) ==
    IF es_index.isinstance = "str" THEN <<es_index.value>> ELSE es_index.value

\* es_handle.indices.exists: every index named exists.
indices_exists(cluster, index) ==
    \A i \in 1..Len(index) : cluster[index[i]].exists

\* es_handle.search(index=...)['hits']['total']['value'].
RECURSIVE hits_total(_, _)
hits_total(cluster, names) ==
    IF names = {} THEN 0
    ELSE LET name == CHOOSE name \in names : TRUE
         IN  cluster[name].docs + hits_total(cluster, names \ {name})

\* es_handle.indices.get: one item for each index named.
RECURSIVE indices_get(_, _)
indices_get(cluster, names) ==
    IF names = {} THEN <<>>
    ELSE LET name == CHOOSE name \in names : TRUE
         IN  <<cluster[name]>> \o indices_get(cluster, names \ {name})

\* field_names.extend(list(fields.keys())) for every index; a mappings
\* dict without 'properties' raises KeyError.
RECURSIVE extend_all(_, _)
extend_all(field_names, items) ==
    IF items = <<>> \/ field_names.raised # "" THEN field_names
    ELSE extend_all(
            IF ~Head(items).mapped
            THEN [field_names EXCEPT !.raised = "KeyError"]
            ELSE [field_names EXCEPT
                      !.value = field_names.value \o Head(items).properties],
            Tail(items))

\* list(set(field_names)): one of each name, in an order of the set's own.
RECURSIVE as_list(_)
as_list(names) ==
    IF names = {} THEN <<>>
    ELSE LET name == CHOOSE name \in names : TRUE
         IN  <<name>> \o as_list(names \ {name})

list_set(field_names) ==
    as_list({field_names[i] : i \in 1..Len(field_names)})

keep_fields(field_names) == field_names

remove_uninteresting(field_names) ==
    SelectSeq(field_names,
              LAMBDA field :
                  field \notin {db_id, combine_id, xml2kvp_meta, fingerprint})

sort(field_names) == SortSeq(field_names, str_lt)

NotCalled == [returned |-> "", field_names |-> <<>>]

get_index_fields(cluster, self) ==
    LET names == {self[i] : i \in 1..Len(self)}
    IN  IF indices_exists(cluster, self) /\ hits_total(cluster, names) > 0
        THEN LET field_names ==
                     extend_all([raised |-> "", value |-> <<>>],
                                indices_get(cluster, names))
             IN  IF field_names.raised # ""
                 THEN [returned |-> field_names.raised, field_names |-> <<>>]
                 ELSE [returned |-> "list",
                       field_names |->
                           sort(remove_uninteresting(
                               list_set(field_names.value)))]
        ELSE [returned |-> "None", field_names |-> <<>>]

\* round(n / d, 4), halves to the even digit.
round4(n, d) ==
    LET q == (n * 10000) \div d
        r == (n * 10000) % d
    IN  IF 2 * r > d \/ (2 * r = d /\ q % 2 = 1) THEN q + 1 ELSE q

one_distinct_per_doc_by_ratio(field_dict, total, one_per_doc_offset) ==
    /\ field_dict.distinct_ratio > 10000 - one_per_doc_offset
    /\ field_dict.distinct_ratio < 10000 + one_per_doc_offset

one_distinct_per_doc(field_dict, total, one_per_doc_offset) ==
    /\ field_dict.distinct_ratio > 10000 - one_per_doc_offset
    /\ field_dict.distinct_ratio < 10000 + one_per_doc_offset
    /\ Cardinality({field_dict.doc_instances, field_dict.val_instances,
                    total}) = 1

NoFieldDict ==
    [returned |-> "", doc_instances |-> 0, val_instances |-> 0,
     distinct |-> 0, doc_missing |-> 0, distinct_ratio |-> 0,
     percentage_of_total_records |-> 0, one_distinct_per_doc |-> FALSE]

_calc_field_metrics(sr_dict, one_per_doc_offset) ==
    IF sr_dict.aggregations.doc_instances.doc_count > 0
    THEN LET total == sr_dict.hits.total.value
             counted ==
                 [NoFieldDict EXCEPT
                     !.returned = "dict",
                     !.doc_instances =
                         sr_dict.aggregations.doc_instances.doc_count,
                     !.val_instances =
                         sr_dict.aggregations.val_instances.value,
                     !.distinct = sr_dict.aggregations.distinct.value]
             measured ==
                 [counted EXCEPT
                     !.doc_missing = total - counted.doc_instances,
                     !.distinct_ratio =
                         IF counted.val_instances > 0
                         THEN round4(counted.distinct, counted.val_instances)
                         ELSE 0,
                     !.percentage_of_total_records =
                         round4(counted.doc_instances, total)]
         IN  [measured EXCEPT
                 !.one_distinct_per_doc =
                     one_distinct_per_doc(measured, total, one_per_doc_offset)]
    ELSE [NoFieldDict EXCEPT !.returned = "False"]

\* The clusters: an index is absent, or empty with or without mappings, or
\* holds documents whose fields are mapped.
IndexNames == {"j" \o ToString(i) : i \in 1..MaxIndices}

PropertyLists ==
    {<<<<"t", "i", "t", "l", "e">>, db_id, combine_id, <<"a", "b">>, <<"Z">>>>,
     <<xml2kvp_meta, <<"d", "b">>, fingerprint, <<"t", "i", "t", "l", "e">>>>,
     <<db_id>>}

NoIndex == [exists |-> FALSE, docs |-> 0, mapped |-> FALSE, properties |-> <<>>]

Indices ==
    {NoIndex, [NoIndex EXCEPT !.exists = TRUE]}
    \cup [exists : {TRUE}, docs : {0, 1}, mapped : {TRUE},
          properties : PropertyLists]

Clusters == [IndexNames -> Indices]

IndexLists == UNION {[1..n -> IndexNames] : n \in 1..MaxIndices}

NoSearchResult ==
    [hits |-> [total |-> [value |-> 0]],
     aggregations |-> [doc_instances |-> [doc_count |-> 0],
                       val_instances |-> [value |-> 0],
                       distinct |-> [value |-> 0]]]

\* The search results of one field: the documents that hold it are among
\* the hits, and the cardinality is an estimate of the distinct values.
SearchResults ==
    {[hits |-> [total |-> [value |-> total]],
      aggregations |-> [doc_instances |-> [doc_count |-> docs],
                        val_instances |-> [value |-> vals],
                        distinct |-> [value |-> distinct]]] :
        total \in 1..MaxDocs, docs \in 0..MaxDocs, vals \in 0..(2 * MaxDocs),
        distinct \in 0..(2 * MaxDocs + 1)}

Offsets == {1, 500}

\* ESIndex(es_index).get_index_fields()
index_fields ==
    /\ esFields = NotCalled
    /\ \E isinstance \in {"str", "list"} :
        \E value \in IF isinstance = "str" THEN IndexNames ELSE IndexLists :
            LET es_index == [isinstance |-> isinstance, value |-> value]
            IN  /\ esIndex' = ESIndex(es_index)
                /\ esFields' = get_index_fields(esCluster, ESIndex(es_index))
    /\ UNCHANGED <<esCluster, ONE_PER_DOC_OFFSET, srDict, fieldDict>>
    /\ UNCHANGED besideEs

\* ESIndex._calc_field_metrics(sr_dict, field_name)
field_metrics ==
    /\ fieldDict = NoFieldDict
    /\ \E sr_dict \in SearchResults :
        /\ sr_dict.aggregations.doc_instances.doc_count
               <= sr_dict.hits.total.value
        /\ sr_dict.aggregations.distinct.value
               <= sr_dict.aggregations.val_instances.value + 1
        /\ srDict' = sr_dict
        /\ fieldDict' = _calc_field_metrics(sr_dict, ONE_PER_DOC_OFFSET)
    /\ UNCHANGED <<esCluster, esIndex, esFields, ONE_PER_DOC_OFFSET>>
    /\ UNCHANGED besideEs

(***************************************************************************)
(* Organization (core/models/organization.py). Job.record_count is the     *)
(* record count the Job row holds.                                         *)
(***************************************************************************)
Ascending(ids) == SortSeq(as_list(ids), <)

\* self.recordgroup_set.all(): the record groups of the organization
recordgroup_set(self) ==
    Ascending({g \in DOMAIN recordGroups : recordGroups[g] = self})

\* The jobs of every record group, whichever it is.
job_set_of_any(rg) == Ascending(DOMAIN jobs)

\* rg.job_set.all(): the jobs of the record group
job_set(rg) == Ascending({j \in DOMAIN jobs : jobs[j] = rg})

\* for job in rg.job_set.all(): total_record_count += job.record_count
RECURSIVE add_jobs(_, _)
add_jobs(total_record_count, job_ids) ==
    IF job_ids = <<>> \/ ~assigned(total_record_count)
    THEN total_record_count
    ELSE add_jobs(total_record_count + recordCounts[Head(job_ids)],
                  Tail(job_ids))

\* for rg in self.recordgroup_set.all(): ...
RECURSIVE add_record_groups(_, _)
add_record_groups(total_record_count, rgs) ==
    IF rgs = <<>> \/ ~assigned(total_record_count)
    THEN total_record_count
    ELSE add_record_groups(add_jobs(total_record_count, job_set(Head(rgs))),
                           Tail(rgs))

total_record_count(self) == add_record_groups(0, recordgroup_set(self))

NoCount == [org_id |-> 0, total_record_count |-> 0]

\* Organization.objects.get(pk=org_id).total_record_count()
count_records ==
    /\ \E org_id \in DOMAIN orgs :
        countResp' = [org_id |-> org_id,
                      total_record_count |-> total_record_count(org_id)]
    /\ UNCHANGED <<recordCounts, orgVars>>
    /\ UNCHANGED besideCount

GroupIds == 1..MaxOrgs
JobIds == 1..MaxJobs
RecordCounts == {0, 1, 2}

(***************************************************************************)
(* Specifications.                                                         *)
(***************************************************************************)
OrgIdle ==
    /\ orgs = <<>>
    /\ recordGroups = <<>>
    /\ jobs = <<>>
    /\ jobRecords = <<>>
    /\ bgTasks = <<>>
    /\ queue = <<>>
    /\ orgResp = NoOrgResponse
    /\ deleteRequests = 0

OaiIdle ==
    /\ transactions = <<>>
    /\ now = 0
    /\ req = <<>>
    /\ resp = NoResponse
    /\ chain = NoChain
    /\ redeemed = {}
    /\ reuse = FALSE
    /\ advertised = <<>>

BgIdle ==
    /\ revoked = {}
    /\ dropped = {}
    /\ deleteAll = NoDeleteAll
    /\ deletedRows = {}
    /\ bgResp = NoBgResponse
    /\ bgRequests = 0

TsIdle ==
    /\ ENABLE_PYTHON = FALSE
    /\ transformations = <<>>
    /\ lastTransformationId = 0
    /\ tsReq = NoTsRequest
    /\ tsResp = NoTsResponse
    /\ tsRequests = 0

RunIdle ==
    /\ jobStatus = <<>>
    /\ activeRuns = <<>>
    /\ rerunQueue = <<>>
    /\ messages = <<>>
    /\ runResp = NoRunResponse
    /\ runRequests = 0
    /\ passedOver = {}

NoKwargs == [include_sibling_id |-> FALSE]

KvpIdle ==
    /\ xmlDoc = Leaf(<<"root">>, <<>>)
    /\ config = NoKwargs
    /\ kvpHandler = XML2kvp(NoKwargs)
    /\ hashSeed = 1
    /\ kvpDict = NoMapping
    /\ kvpAgain = NotAgain
    /\ xmlRecord = XMLRecord
    /\ kvpRemapped = NoMapping
    /\ kvpStage = "idle"

ListingIdle == updateCalls = <<>>

CountIdle ==
    /\ recordCounts = <<>>
    /\ countResp = NoCount

EsIdle ==
    /\ esCluster = [name \in IndexNames |-> NoIndex]
    /\ esIndex = <<>>
    /\ esFields = NotCalled
    /\ ONE_PER_DOC_OFFSET = 500
    /\ srDict = NoSearchResult
    /\ fieldDict = NoFieldDict

\* The OAI server over every store of published records.
Init ==
    /\ ListingIdle
    /\ CountIdle
    /\ EsIdle
    /\ KvpIdle
    /\ records \in RecordLists
    /\ OAI_RESPONSE_SIZE \in 1..MaxChunk
    /\ OaiIdle
    /\ OrgIdle
    /\ RunIdle
    /\ TsIdle
    /\ BgIdle

Next == Request \/ Respond

Spec == Init /\ [][Next]_vars

\* The OAI server over the full stores, started again under larger chunk
\* sizes between requests.
InitPaging ==
    /\ ListingIdle
    /\ CountIdle
    /\ EsIdle
    /\ KvpIdle
    /\ records \in {rows \in RecordLists : Len(rows) = MaxRecords}
    /\ OAI_RESPONSE_SIZE = 1
    /\ OaiIdle
    /\ OrgIdle
    /\ RunIdle
    /\ TsIdle
    /\ BgIdle

NextPaging == Request \/ Respond \/ Reconfigure

SpecPaging == InitPaging /\ [][NextPaging]_vars

\* The OAI server with a running clock, over a full store without sets.
InitExpiry ==
    /\ ListingIdle
    /\ CountIdle
    /\ EsIdle
    /\ KvpIdle
    /\ records = [i \in 1..MaxRecords |-> PublishedRecord(i, NONE)]
    /\ OAI_RESPONSE_SIZE \in 1..MaxChunk
    /\ OaiIdle
    /\ OrgIdle
    /\ RunIdle
    /\ TsIdle
    /\ BgIdle

NextExpiry == Request \/ Respond \/ Tick

SpecExpiry == InitExpiry /\ [][NextExpiry]_vars

\* The organization views and the worker: organization o owns the record
\* groups the store maps to it, record group g holds job g, job j record j.
InitOrg ==
    /\ ListingIdle
    /\ CountIdle
    /\ EsIdle
    /\ KvpIdle
    /\ \E f \in [OrgIds -> BOOLEAN] :
          orgs = [o \in OrgIds |-> [name |-> "org" \o ToString(o),
                                    for_analysis |-> f[o]]]
    /\ recordGroups \in [OrgIds -> OrgIds]
    /\ jobs = [j \in OrgIds |-> j]
    /\ jobRecords = [r \in OrgIds |-> r]
    /\ bgTasks = <<>>
    /\ queue = <<>>
    /\ orgResp = NoOrgResponse
    /\ deleteRequests = 0
    /\ records = <<>>
    /\ OAI_RESPONSE_SIZE = 1
    /\ OaiIdle
    /\ RunIdle
    /\ TsIdle
    /\ BgIdle

NextOrg == organizations \/ organization_delete \/ delete_model_instance

SpecOrg == InitOrg /\ [][NextOrg]_vars

\* The same with a fair worker: a task in the queue is eventually run.
SpecOrgFair == SpecOrg /\ WF_vars(delete_model_instance)

\* Run-all and stop-all requests on the organizations, the rerun tasks and
\* the runs of the jobs: every job starts out available.
InitRun ==
    /\ ListingIdle
    /\ CountIdle
    /\ EsIdle
    /\ KvpIdle
    /\ orgs = [o \in OrgIds |-> [name |-> "org" \o ToString(o),
                                  for_analysis |-> FALSE]]
    /\ recordGroups \in [OrgIds -> OrgIds]
    /\ jobs = [j \in OrgIds |-> j]
    /\ jobRecords = [r \in OrgIds |-> r]
    /\ bgTasks = <<>>
    /\ queue = <<>>
    /\ orgResp = NoOrgResponse
    /\ deleteRequests = 0
    /\ jobStatus = [j \in OrgIds |-> "available"]
    /\ activeRuns = [j \in OrgIds |-> 0]
    /\ rerunQueue = <<>>
    /\ messages = <<>>
    /\ runResp = NoRunResponse
    /\ runRequests = 0
    /\ passedOver = {}
    /\ records = <<>>
    /\ OAI_RESPONSE_SIZE = 1
    /\ OaiIdle
    /\ TsIdle
    /\ BgIdle

NextRun ==
    \/ organization_run_jobs
    \/ rerun_jobs
    \/ job_finishes
    \/ organization_stop_jobs

SpecRun == InitRun /\ [][NextRun]_vars

\* The transformation-scenario views over a table that holds no row or one
\* row created directly (Transformation.objects.create), with the flag
\* set or unset.
InitTs ==
    /\ ListingIdle
    /\ CountIdle
    /\ EsIdle
    /\ KvpIdle
    /\ ENABLE_PYTHON \in BOOLEAN
    /\ \E n \in 0..1, t \in {"openrefine", "python"} :
          /\ transformations =
                [i \in 1..n |-> [name |-> "Test Transform",
                                 payload |-> "test payload",
                                 transformation_type |-> t]]
          /\ lastTransformationId = n
    /\ tsReq = NoTsRequest
    /\ tsResp = NoTsResponse
    /\ tsRequests = 0
    /\ records = <<>>
    /\ OAI_RESPONSE_SIZE = 1
    /\ OaiIdle
    /\ OrgIdle
    /\ RunIdle
    /\ BgIdle

NextTs ==
    \/ create_transformation_scenario
    \/ transformation_scenario
    \/ delete_transformation_scenario
    \/ transformation_scenario_payload

SpecTs == InitTs /\ [][NextTs]_vars

\* The background-task views over the tasks organization_delete creates,
\* with the queue and its worker.
InitBg ==
    /\ ListingIdle
    /\ CountIdle
    /\ EsIdle
    /\ KvpIdle
    /\ orgs = [o \in OrgIds |-> [name |-> "org" \o ToString(o),
                                  for_analysis |-> FALSE]]
    /\ recordGroups = [g \in OrgIds |-> g]
    /\ jobs = [j \in OrgIds |-> j]
    /\ jobRecords = [r \in OrgIds |-> r]
    /\ bgTasks = <<>>
    /\ queue = <<>>
    /\ orgResp = NoOrgResponse
    /\ deleteRequests = 0
    /\ BgIdle
    /\ records = <<>>
    /\ OAI_RESPONSE_SIZE = 1
    /\ OaiIdle
    /\ RunIdle
    /\ TsIdle

NextBg ==
    \/ organization_delete
    \/ delete_model_instance
    \/ queue_revokes
    \/ bg_tasks
    \/ bg_task_cancel
    \/ bg_task_delete
    \/ bg_tasks_delete_all_fetch
    \/ bg_tasks_delete_all

SpecBg == InitBg /\ [][NextBg]_vars

\* The mapping engine over every document and configuration: a document is
\* mapped, then either mapped once more or reconstructed and mapped back.
InitKvp ==
    /\ ListingIdle
    /\ CountIdle
    /\ EsIdle
    /\ xmlDoc \in Documents
    /\ config \in Kwargs
    /\ kvpHandler = XML2kvp(config)
    /\ hashSeed = 1
    /\ kvpDict = NoMapping
    /\ kvpAgain = NotAgain
    /\ xmlRecord = XMLRecord
    /\ kvpRemapped = NoMapping
    /\ kvpStage = "document"
    /\ records = <<>>
    /\ OAI_RESPONSE_SIZE = 1
    /\ OaiIdle
    /\ OrgIdle
    /\ RunIdle
    /\ TsIdle
    /\ BgIdle

NextKvp == map_document \/ map_again \/ reconstruct \/ remap

SpecKvp == InitKvp /\ [][NextKvp]_vars

\* The mapping engine over the documents of long values.
InitSanitize ==
    /\ ListingIdle
    /\ CountIdle
    /\ EsIdle
    /\ xmlDoc \in LongDocuments
    /\ config \in SanitizeKwargs
    /\ kvpHandler = XML2kvp(config)
    /\ hashSeed = 1
    /\ kvpDict = NoMapping
    /\ kvpAgain = NotAgain
    /\ xmlRecord = XMLRecord
    /\ kvpRemapped = NoMapping
    /\ kvpStage = "document"
    /\ records = <<>>
    /\ OAI_RESPONSE_SIZE = 1
    /\ OaiIdle
    /\ OrgIdle
    /\ RunIdle
    /\ TsIdle
    /\ BgIdle

NextSanitize == map_document

SpecSanitize == InitSanitize /\ [][NextSanitize]_vars

\* The mapping engine over the documents and configurations of copied
\* fields.
InitCopy ==
    /\ xmlDoc \in CopyDocuments
    /\ config \in CopyKwargs
    /\ kvpHandler = XML2kvp(config)
    /\ hashSeed = 1
    /\ kvpDict = NoMapping
    /\ kvpAgain = NotAgain
    /\ xmlRecord = XMLRecord
    /\ kvpRemapped = NoMapping
    /\ kvpStage = "document"
    /\ ListingIdle
    /\ CountIdle
    /\ EsIdle
    /\ records = <<>>
    /\ OAI_RESPONSE_SIZE = 1
    /\ OaiIdle
    /\ OrgIdle
    /\ RunIdle
    /\ TsIdle
    /\ BgIdle

NextCopy == map_document

SpecCopy == InitCopy /\ [][NextCopy]_vars

\* The mapping engine over the documents and configurations of delimiter
\* collisions.
InitCollision ==
    /\ xmlDoc \in CollisionDocuments
    /\ config \in CollisionKwargs
    /\ kvpHandler = XML2kvp(config)
    /\ hashSeed = 1
    /\ kvpDict = NoMapping
    /\ kvpAgain = NotAgain
    /\ xmlRecord = XMLRecord
    /\ kvpRemapped = NoMapping
    /\ kvpStage = "document"
    /\ ListingIdle
    /\ CountIdle
    /\ EsIdle
    /\ records = <<>>
    /\ OAI_RESPONSE_SIZE = 1
    /\ OaiIdle
    /\ OrgIdle
    /\ RunIdle
    /\ TsIdle
    /\ BgIdle

NextCollision == map_document

SpecCollision == InitCollision /\ [][NextCollision]_vars

\* Field discovery over every cluster.
InitFields ==
    /\ ListingIdle
    /\ CountIdle
    /\ esCluster \in Clusters
    /\ esIndex = <<>>
    /\ esFields = NotCalled
    /\ ONE_PER_DOC_OFFSET = 500
    /\ srDict = NoSearchResult
    /\ fieldDict = NoFieldDict
    /\ KvpIdle
    /\ records = <<>>
    /\ OAI_RESPONSE_SIZE = 1
    /\ OaiIdle
    /\ OrgIdle
    /\ RunIdle
    /\ TsIdle
    /\ BgIdle

NextFields == index_fields

SpecFields == InitFields /\ [][NextFields]_vars

\* Field metrics over every search result and offset.
InitMetrics ==
    /\ ListingIdle
    /\ CountIdle
    /\ esCluster = [name \in IndexNames |-> NoIndex]
    /\ esIndex = <<>>
    /\ esFields = NotCalled
    /\ ONE_PER_DOC_OFFSET \in Offsets
    /\ srDict = NoSearchResult
    /\ fieldDict = NoFieldDict
    /\ KvpIdle
    /\ records = <<>>
    /\ OAI_RESPONSE_SIZE = 1
    /\ OaiIdle
    /\ OrgIdle
    /\ RunIdle
    /\ TsIdle
    /\ BgIdle

NextMetrics == field_metrics

SpecMetrics == InitMetrics /\ [][NextMetrics]_vars

\* Record counts over every assignment of record groups to organizations,
\* of jobs to record groups and of counts to jobs.
InitCount ==
    /\ ListingIdle
    /\ orgs = [o \in OrgIds |-> [name |-> "org" \o ToString(o),
                                  for_analysis |-> FALSE]]
    /\ recordGroups \in [GroupIds -> OrgIds]
    /\ jobs \in [JobIds -> GroupIds]
    /\ recordCounts \in [JobIds -> RecordCounts]
    /\ countResp = NoCount
    /\ jobRecords = <<>>
    /\ bgTasks = <<>>
    /\ queue = <<>>
    /\ orgResp = NoOrgResponse
    /\ deleteRequests = 0
    /\ EsIdle
    /\ KvpIdle
    /\ records = <<>>
    /\ OAI_RESPONSE_SIZE = 1
    /\ OaiIdle
    /\ RunIdle
    /\ TsIdle
    /\ BgIdle

NextCount == count_records

SpecCount == InitCount /\ [][NextCount]_vars

(***************************************************************************)
(* What the claims speak of.                                               *)
(***************************************************************************)
Answered == resp.status # "none"

RequestServed == resp.status = "none" /\ resp'.status # "none"

StoredTokens(txs) == {txs[i].token : i \in 1..Len(txs)}

\* The transaction row a token names.
RowOf(txs, token) == txs[CHOOSE i \in 1..Len(txs) : txs[i].token = token]

\* The published records a publish-set filter matches, in stored order.
Matching(rows, filter) ==
    IF filter = NONE THEN rows
    ELSE SelectSeq(rows, LAMBDA r : r.publish_set_id = filter)

\* The identifier a record's header is to carry.
HeaderIdentifier(r) ==
    IF r.publish_set_id = NONE
    THEN COMBINE_OAI_IDENTIFIER \o ":" \o r.record_id
    ELSE COMBINE_OAI_IDENTIFIER \o ":" \o r.publish_set_id \o ":" \o r.record_id

\* The header identifiers of the records at offsets [from, to) of a list.
IdentifiersAt(rows, from, to) ==
    [j \in 1..(Min(to, Len(rows)) - from) |-> HeaderIdentifier(rows[from + j])]

Ceiling(n, c) == (n + c - 1) \div c

\* The paging state a list request runs with: the stored row of its token,
\* or the defaults of a request without one.
Paging(args, txs) ==
    IF "resumptionToken" \in DOMAIN args
    THEN LET ot == RowOf(txs, args["resumptionToken"])
         IN  [start |-> ot.start, chunk_size |-> ot.chunk_size,
              filter |-> ot.publish_set_id]
    ELSE [start |-> 0, chunk_size |-> OAI_RESPONSE_SIZE,
          filter |-> IF "set" \in DOMAIN args /\ args["set"] # ""
                     THEN args["set"] ELSE NONE]

SupportedVerb(args) == "verb" \in DOMAIN args /\ args["verb"] \in Verbs

ListRequest(args) == "verb" \in DOMAIN args /\ args["verb"] \in ListVerbs

TokenResolves(args, txs) ==
    \/ "resumptionToken" \notin DOMAIN args
    \/ args["resumptionToken"] \in StoredTokens(txs)

(***************************************************************************)
(* C1. Along a chain that starts with a list request without a token and   *)
(* goes on by redeeming the token of the page before, page k holds the     *)
(* records at offsets [k*c, min((k+1)*c, N)) of the N matching records in  *)
(* stored order, and the chain ends, with a page without a token, after    *)
(* exactly max(1, ceil(N/c)) pages.                                        *)
(***************************************************************************)
PagingChainCoversEveryRecordOnce ==
    chain.active =>
        LET matching == Matching(records, chain.filter)
            N == Len(matching)
            c == OAI_RESPONSE_SIZE
            last == IF N = 0 THEN 1 ELSE Ceiling(N, c)
        IN  /\ Len(chain.pages) <= last
            /\ \A k \in 1..Len(chain.pages) :
                  chain.pages[k] = IdentifiersAt(matching, (k - 1) * c, k * c)
            /\ (chain.token = NONE) <=> (Len(chain.pages) = last)

\* A chain of three pages has been followed to its last page.
ChainOfThreePagesEnded ==
    /\ chain.active
    /\ Len(chain.pages) = 3
    /\ chain.token = NONE
    /\ Answered /\ "resumptionToken" \in DOMAIN req

(***************************************************************************)
(* C2. A list response carries a resumptionToken, and a transaction is     *)
(* persisted, exactly when start + chunk_size < completeListSize; the      *)
(* token then carries the size of the matching list and the start of the   *)
(* page as cursor, and the new row holds start + chunk_size, the same      *)
(* chunk size and the same publish-set filter.                             *)
(***************************************************************************)
TokenIssuedIffMoreRemain ==
    [][ (RequestServed /\ ListRequest(req') /\ resp'.status = "document"
            /\ NodesWithId(resp', "verb_node") # <<>>) =>
        LET pg == Paging(req', transactions)
            N == Len(Matching(records, pg.filter))
            more == pg.start + pg.chunk_size < N
            issued == TokenNodes(resp')
        IN  /\ (issued # <<>>) <=> more
            /\ (transactions' # transactions) <=> more
            /\ more =>
                 /\ Len(issued) = 1
                 /\ issued[1].completeListSize = ToString(N)
                 /\ issued[1].cursor = ToString(pg.start)
                 /\ Len(transactions') = Len(transactions) + 1
                 /\ SubSeq(transactions', 1, Len(transactions)) = transactions
                 /\ LET ot == transactions'[Len(transactions')]
                    IN  /\ ot.token = issued[1].text
                        /\ ot.start = pg.start + pg.chunk_size
                        /\ ot.chunk_size = pg.chunk_size
                        /\ ot.publish_set_id = pg.filter
      ]_vars

\* A page served from a token carries the next token, and its row is stored.
TokenIssuedOnRedeemedPage ==
    /\ Answered /\ "resumptionToken" \in DOMAIN req
    /\ TokenNodes(resp) # <<>>
    /\ TokenNodes(resp)[1].cursor # "0"
    /\ transactions[Len(transactions)].token = TokenNodes(resp)[1].text

UnsupportedVerbYieldsBadVerb ==
    [][ (RequestServed /\ ~SupportedVerb(req')) =>
        /\ resp'.status = "document"
        /\ ErrorCodes(resp') = <<"badVerb">>
        /\ NodesWithId(resp', "verb_node") = <<>>
        /\ RecordNodes(resp') = <<>>
        /\ transactions' = transactions
      ]_vars

(***************************************************************************)
(* C5. A request with a supported verb and a resumptionToken that does not *)
(* match exactly one stored transaction is answered with a                 *)
(* badResumptionToken error document without verb node or record, and the  *)
(* stored transactions stay as they were.                                  *)
(***************************************************************************)
UnknownTokenYieldsBadResumptionToken ==
    [][ (RequestServed /\ SupportedVerb(req')
            /\ "resumptionToken" \in DOMAIN req'
            /\ Cardinality({i \in 1..Len(transactions) :
                  transactions[i].token = req'["resumptionToken"]}) # 1) =>
        /\ resp'.status = "document"
        /\ ErrorCodes(resp') = <<"badResumptionToken">>
        /\ NodesWithId(resp', "verb_node") = <<>>
        /\ RecordNodes(resp') = <<>>
        /\ transactions' = transactions
      ]_vars

\* A list request presents a token no stored row carries, other rows exist.
UnknownTokenRefused ==
    /\ Answered /\ ListRequest(req)
    /\ "resumptionToken" \in DOMAIN req
    /\ req["resumptionToken"] \notin StoredTokens(transactions)
    /\ transactions # <<>>
    /\ ErrorCodes(resp) = <<"badResumptionToken">>

(***************************************************************************)
(* C6. A token is advertised with expirationDate = request time + 3600 s,  *)
(* and a request that presents it after that instant is not served a page  *)
(* from it.                                                                *)
(***************************************************************************)
TokenExpiresAfterOneHour ==
    /\ \A i \in 1..Len(TokenNodes(resp)) :
          TokenNodes(resp)[i].expirationDate = resp.responseDate + TOKEN_TTL
    /\ Redeems(req, resp) =>
          resp.responseDate <= advertised[req["resumptionToken"]]

(***************************************************************************)
(* C7. GetRecord for an identifier no published record has returns the     *)
(* GetRecord verb node without children and without an error node;         *)
(* GetRecord for an identifier of a published record returns exactly one   *)
(* record node, with its header and the record's document as metadata.     *)
(***************************************************************************)
GetRecordEmitsRecordOrNothing ==
    (Answered /\ SupportedVerb(req) /\ req["verb"] = "GetRecord"
        /\ "identifier" \in DOMAIN req /\ TokenResolves(req, transactions)) =>
        LET found == {i \in 1..Len(records) :
                        records[i].record_id = req["identifier"]}
            verb_nodes == NodesWithId(resp, "verb_node")
        IN  /\ resp.status = "document"
            /\ ErrorCodes(resp) = <<>>
            /\ Len(verb_nodes) = 1
            /\ verb_nodes[1].tag = "GetRecord"
            /\ IF found = {}
               THEN verb_nodes[1].children = <<>>
               ELSE /\ Len(verb_nodes[1].children) = 1
                    /\ verb_nodes[1].children[1].tag = "record"
                    /\ verb_nodes[1].children[1].header.datestamp =
                          resp.responseDate
                    /\ \E i \in found :
                          verb_nodes[1].children[1].metadata =
                              <<records[i].document>>

\* GetRecord was asked for an identifier that no record of a non-empty
\* store has, and an empty GetRecord node came back.
GetRecordOfUnknownIdentifier ==
    /\ Answered /\ SupportedVerb(req) /\ req["verb"] = "GetRecord"
    /\ "identifier" \in DOMAIN req
    /\ records # <<>>
    /\ \A i \in 1..Len(records) : records[i].record_id # req["identifier"]
    /\ NodesWithId(resp, "verb_node") # <<>>
    /\ ChildrenOf(resp, "verb_node") = <<>>

(***************************************************************************)
(* C8. ListMetadataFormats returns exactly one metadataFormat node, of     *)
(* prefix generic, when no identifier is given or the identifier is that   *)
(* of a published record; for an identifier no published record has, the   *)
(* response is an idDoesNotExist error document without verb node and      *)
(* without metadataFormat node.                                            *)
(***************************************************************************)
ListMetadataFormatsChecksIdentifier ==
    (Answered /\ SupportedVerb(req) /\ req["verb"] = "ListMetadataFormats"
        /\ TokenResolves(req, transactions)) =>
        LET known == \/ "identifier" \notin DOMAIN req
                     \/ \E i \in 1..Len(records) :
                           records[i].record_id = req["identifier"]
            formats == TagChildren(resp, "metadataFormat")
        IN  /\ resp.status = "document"
            /\ IF known
               THEN /\ ErrorCodes(resp) = <<>>
                    /\ Len(NodesWithId(resp, "verb_node")) = 1
                    /\ Len(formats) = 1
                    /\ formats[1].metadataPrefix = "generic"
               ELSE /\ ErrorCodes(resp) = <<"idDoesNotExist">>
                    /\ NodesWithId(resp, "verb_node") = <<>>
                    /\ formats = <<>>

\* ListMetadataFormats was asked for an identifier that no record of a
\* non-empty store has, and idDoesNotExist came back.
MetadataFormatsOfUnknownIdentifier ==
    /\ Answered /\ SupportedVerb(req) /\ req["verb"] = "ListMetadataFormats"
    /\ "identifier" \in DOMAIN req
    /\ records # <<>>
    /\ \A i \in 1..Len(records) : records[i].record_id # req["identifier"]
    /\ ErrorCodes(resp) = <<"idDoesNotExist">>

(***************************************************************************)
(* C9. Every record header a response carries holds the identifier         *)
(* <COMBINE_OAI_IDENTIFIER>:<publish_set_id>:<record_id> of a published    *)
(* record that has a publish set, or <COMBINE_OAI_IDENTIFIER>:<record_id>  *)
(* of one that has none, whichever verb emitted it.                        *)
(***************************************************************************)
HeaderIdentifierNamesSetAndRecord ==
    \A i \in 1..Len(RecordNodes(resp)) :
        Identifiers(resp)[i] \in
            {HeaderIdentifier(records[j]) : j \in 1..Len(records)}

(***************************************************************************)
(* C10. When organization_delete returns, it redirects to the              *)
(* organizations list, the organization row is still there with            *)
(* ' (DELETING)' appended to its name, a delete_model_instance background  *)
(* task row naming the organization carries the id of the task just        *)
(* enqueued, and no Organization, RecordGroup, Job or Record row is gone;  *)
(* the list view shows the renamed organization while its task is queued,  *)
(* and a row goes only when the worker runs a task.                        *)
(***************************************************************************)
PendingDeletion(o) ==
    \E i \in 1..Len(queue) : queue[i].args = <<"Organization", o>>

DeleteRequested(o) ==
    \E i \in 1..Len(bgTasks) :
        /\ bgTasks[i].task_type = "delete_model_instance"
        /\ bgTasks[i].task_params_json.org_id = o

OrgOfRecordGroup(g) == recordGroups[g]
OrgOfJob(j) == OrgOfRecordGroup(jobs[j])
OrgOfRecord(r) == OrgOfJob(jobRecords[r])

DeletedWithEverythingUnderIt(o) ==
    /\ o \notin DOMAIN orgs
    /\ \A g \in DOMAIN recordGroups : recordGroups[g] \in DOMAIN orgs
    /\ \A j \in DOMAIN jobs : jobs[j] \in DOMAIN recordGroups
    /\ \A r \in DOMAIN jobRecords : jobRecords[r] \in DOMAIN jobs

RequestedOrganizationIsEventuallyDeleted ==
    /\ \A o \in OrgIds :
          DeleteRequested(o) ~> DeletedWithEverythingUnderIt(o)
    /\ [][ /\ \A g \in DOMAIN recordGroups \ DOMAIN recordGroups' :
                DeleteRequested(OrgOfRecordGroup(g))
            /\ \A j \in DOMAIN jobs \ DOMAIN jobs' :
                DeleteRequested(OrgOfJob(j))
            /\ \A r \in DOMAIN jobRecords \ DOMAIN jobRecords' :
                DeleteRequested(OrgOfRecord(r))
            /\ \A o \in DOMAIN orgs \ DOMAIN orgs' : DeleteRequested(o)
          ]_vars

\* One organization was deleted with its record groups, jobs and records
\* while another one keeps a record group, a job and a record.
OneOrganizationDeletedOtherIntact ==
    /\ queue = <<>>
    /\ \E o \in OrgIds : DeleteRequested(o) /\ DeletedWithEverythingUnderIt(o)
    /\ \E o \in DOMAIN orgs : ~DeleteRequested(o)
    /\ Cardinality(DOMAIN recordGroups) < MaxOrgs
    /\ recordGroups # <<>> /\ jobs # <<>> /\ jobRecords # <<>>

CompleteForm(form) == FormFields \subseteq DOMAIN form

Persisted(submission, before, after, lastId) ==
    IF submission.view = "create_transformation_scenario"
    THEN /\ DOMAIN after = DOMAIN before \cup {lastId + 1}
         /\ lastId + 1 \notin DOMAIN before
         /\ after[lastId + 1] = submission.form
         /\ \A i \in DOMAIN before : after[i] = before[i]
    ELSE /\ DOMAIN after = DOMAIN before
         /\ after[submission.id] = submission.form
         /\ \A i \in DOMAIN before \ {submission.id} : after[i] = before[i]

PythonTransformationIsGatedByFlag ==
    [][ LET r == tsReq'
            submitted ==
              /\ tsRequests' = tsRequests + 1
              /\ r.view \in {"create_transformation_scenario",
                              "transformation_scenario"}
              /\ CompleteForm(r.form)
              /\ r.view = "transformation_scenario" =>
                    r.id \in DOMAIN transformations
        IN  /\ (submitted /\ r.form.transformation_type = "python") =>
                  IF ENABLE_PYTHON
                  THEN /\ tsResp' = TsRedirect
                       /\ Persisted(r, transformations, transformations',
                                     lastTransformationId)
                  ELSE /\ tsResp'.status = "form"
                       /\ "Select a valid choice. python is not one of "
                            \o "the available choices." \in tsResp'.errors
                       /\ transformations' = transformations
            /\ (submitted /\ r.form.transformation_type
                                \in {"xslt", "openrefine"}) =>
                  /\ tsResp' = TsRedirect
                  /\ Persisted(r, transformations, transformations',
                                lastTransformationId)
            /\ (tsRequests' = tsRequests + 1
                  /\ r.view = "transformation_scenario_payload"
                  /\ r.id \in DOMAIN transformations) =>
                  /\ tsResp'.status = "content"
                  /\ tsResp'.content = transformations[r.id].payload
                  /\ transformations' = transformations
      ]_vars

\* With the flag unset, the edit of an existing python row was refused and
\* the row is as it was created.
PythonEditRefusedRowKept ==
    /\ ~ENABLE_PYTHON
    /\ tsReq.view = "transformation_scenario"
    /\ tsReq.id \in DOMAIN transformations
    /\ CompleteForm(tsReq.form)
    /\ tsReq.form.transformation_type = "python"
    /\ tsResp.status = "form"
    /\ transformations[tsReq.id] =
          [name |-> "Test Transform", payload |-> "test payload",
           transformation_type |-> "python"]

(***************************************************************************)
(* C14. Deleting a transformation scenario by id removes exactly the row   *)
(* with that id when there is one and leaves the other rows as they were;  *)
(* for an id without a row nothing is raised and every row stays; the      *)
(* answer is a redirect to configuration in both cases.                    *)
(***************************************************************************)
DeleteRemovesExactlyThatRow ==
    [][ (tsRequests' = tsRequests + 1
           /\ tsReq'.view = "delete_transformation_scenario") =>
          /\ tsResp' = TsRedirect
          /\ DOMAIN transformations' = DOMAIN transformations \ {tsReq'.id}
          /\ \A i \in DOMAIN transformations' :
                transformations'[i] = transformations[i]
      ]_vars

\* A delete of an id without a row was answered with the redirect while
\* the table holds rows.
DeleteOfNonexistentIdRedirected ==
    /\ tsReq.view = "delete_transformation_scenario"
    /\ tsReq.id \notin DOMAIN transformations
    /\ tsReq.id > lastTransformationId
    /\ tsResp = TsRedirect
    /\ Cardinality(DOMAIN transformations) >= 2

(***************************************************************************)
(* C15. A CombineBackgroundTask row, once created, is there until          *)
(* bg_task_delete or bg_tasks_delete_all removes it, and a row a delete    *)
(* removed does not come back; bg_task_cancel leaves every row as it is    *)
(* (not removed, not marked completed) and only asks the queue for the     *)
(* cancellation; bg_task_delete of an existing task, cancelled before or   *)
(* not, leaves no row with that id; bg_tasks_delete_all leaves no row at   *)
(* all when no row was created while it was under way.                     *)
(***************************************************************************)
BgViewServed(view) ==
    /\ bgResp' # bgResp \/ bgRequests' # bgRequests
    /\ bgResp'.view = view

BgRowLifetimeStep ==
    /\ RowIds(bgTasks) \ RowIds(bgTasks') # {} =>
        \/ BgViewServed("bg_task_delete")
        \/ BgViewServed("bg_tasks_delete_all") /\ deleteAll.active
    /\ (bgRequests' = bgRequests + 1
          /\ bgResp'.view = "bg_task_cancel") =>
        /\ bgTasks' = bgTasks
        /\ bgResp'.status = "redirect" =>
              \E i \in 1..Len(bgTasks) :
                  /\ bgTasks[i].id = bgResp'.task_id
                  /\ bgTasks[i].celery_task_id \in revoked'
    /\ (bgRequests' = bgRequests + 1
          /\ bgResp'.view = "bg_task_delete"
          /\ bgResp'.status = "redirect") =>
        /\ bgResp'.task_id \in RowIds(bgTasks)
        /\ RowIds(bgTasks') = RowIds(bgTasks) \ {bgResp'.task_id}
    /\ (deleteAll.active /\ ~deleteAll'.active
          /\ RowIds(bgTasks) \subseteq deleteAll.ids) =>
        bgTasks' = <<>>

BackgroundTaskRowLifetime ==
    /\ [](\A d \in deletedRows : d.id \notin RowIds(bgTasks))
    /\ [][BgRowLifetimeStep]_vars

\* A task was cancelled and then deleted; its row is gone while the row of
\* another task is there.
CancelledTaskDeleted ==
    /\ \E d \in deletedRows : d.cancelled
    /\ bgResp.view = "bg_task_delete"
    /\ bgResp.status = "redirect"
    /\ bgTasks # <<>>

(***************************************************************************)
(* C16.  xml_to_kvp is deterministic: mapping the same document with the   *)
(* same configuration once more yields the same mapping (same field        *)
(* names, same values), also on the handler of the first call and in       *)
(* another process.                                                        *)
(***************************************************************************)
Entries(mapping) == {mapping[i] : i \in 1..Len(mapping)}

XmlToKvpIsDeterministic ==
    kvpStage = "again" => Entries(kvpAgain.kvp) = Entries(kvpDict)

(***************************************************************************)
(* C17.  Round-trip law: once a document has been mapped, reconstructed    *)
(* with kvp_to_xml and mapped again under the same configuration, the      *)
(* second mapping equals the first up to the ordering of keys and of the   *)
(* values of a multi-valued field.                                         *)
(***************************************************************************)
Count(s, x) == Cardinality({i \in 1..Len(s) : s[i] = x})

SameBag(s, t) ==
    /\ Len(s) = Len(t)
    /\ \A i \in 1..Len(s) : Count(s, s[i]) = Count(t, s[i])

SameUpToOrdering(first, second) ==
    /\ Len(first) = Len(second)
    /\ \A i \in 1..Len(first) :
          /\ has_entry(second, first[i].k)
          /\ LET e == second[entry_index(second, first[i].k)]
             IN  e.list = first[i].list /\ SameBag(e.v, first[i].v)

RoundTripLaw ==
    /\ kvpStage = "reconstructed" => xmlRecord.raised = ""
    /\ kvpStage = "remapped" => SameUpToOrdering(kvpDict, kvpRemapped)

(***************************************************************************)
(* C18.  Repeated fields.  With repeating_element_suffix_count off and     *)
(* skip_repeating_values on, a field whose occurrences all hold one value  *)
(* is a scalar of that value and no list holds a value twice; with         *)
(* repeating_element_suffix_count on, a field occurring n times is n       *)
(* scalar fields <name>, <name>_#1 .. <name>_#(n-1), one occurrence each   *)
(* in occurrence order, whatever skip_repeating_values is.                 *)
(***************************************************************************)
\* every occurrence of every field, in occurrence order: the mapping with
\* nothing skipped and nothing renamed
Occurrences ==
    xml_to_kvp(xmlDoc,
               XML2kvp([a \in DOMAIN config |->
                           IF a \in {"repeating_element_suffix_count",
                                     "skip_repeating_values"}
                           THEN FALSE ELSE config[a]]),
               1).kvp_dict

SuffixedName(self, name, n) ==
    IF n = 1 THEN name ELSE name \o <<self.node_delim, "#", ToString(n - 1)>>

RECURSIVE SumOfLen(_)
SumOfLen(mapping) ==
    IF mapping = <<>> THEN 0 ELSE Len(Head(mapping).v) + SumOfLen(Tail(mapping))

RepeatedFieldsAreSkippedOrSuffixed ==
    kvpStage = "mapped" =>
        LET self == XML2kvp(config)
        IN  /\ (~self.repeating_element_suffix_count /\ self.skip_repeating_values)
               => /\ \A i \in 1..Len(Occurrences) :
                        LET field == Occurrences[i]
                        IN  (\A n \in 1..Len(field.v) : field.v[n] = field.v[1])
                            => /\ has_entry(kvpDict, field.k)
                               /\ ~kvpDict[entry_index(kvpDict, field.k)].list
                               /\ kvpDict[entry_index(kvpDict, field.k)].v = <<field.v[1]>>
                  /\ \A j \in 1..Len(kvpDict) : \A x, y \in 1..Len(kvpDict[j].v) :
                        kvpDict[j].v[x] = kvpDict[j].v[y] => x = y
            /\ self.repeating_element_suffix_count
               => /\ \A i \in 1..Len(Occurrences) :
                        LET field == Occurrences[i]
                        IN  \A n \in 1..Len(field.v) :
                               LET name == SuffixedName(self, field.k, n)
                               IN  /\ has_entry(kvpDict, name)
                                   /\ ~kvpDict[entry_index(kvpDict, name)].list
                                   /\ kvpDict[entry_index(kvpDict, name)].v = <<field.v[n]>>
                  /\ Len(kvpDict) = SumOfLen(Occurrences)

\* three alligators with one tail quality, each occurrence under its own name
ThreeEqualOccurrencesSuffixed ==
    /\ kvpStage = "mapped"
    /\ config.repeating_element_suffix_count /\ config.skip_repeating_values
    /\ ~config.include_sibling_id
    /\ \E i, j, l \in 1..Len(kvpDict) :
          /\ kvpDict[i].k = <<"root", "_", "alligator", "_", "tail">>
          /\ kvpDict[j].k = kvpDict[i].k \o <<"_", "#", "1">>
          /\ kvpDict[l].k = kvpDict[i].k \o <<"_", "#", "2">>
          /\ kvpDict[i].v = kvpDict[j].v /\ kvpDict[j].v = kvpDict[l].v

(***************************************************************************)
(* C20.  Sibling grouping: where kvp_to_xml returns a record for a         *)
(* document mapped with include_sibling_id, the reconstructed tree has,    *)
(* where the source has repeated sibling elements, as many elements as     *)
(* the source, each with the child groups of its source instance, and no   *)
(* element of it carries sibling_hash_id.                                  *)
(***************************************************************************)
\* the elements a path of tags leads to, in document order
RECURSIVE Instances(_, _)
RECURSIVE InstancesOf(_, _)
InstancesOf(elements, path) ==
    IF elements = <<>> THEN <<>>
    ELSE Instances(Head(elements), path) \o InstancesOf(Tail(elements), path)

Instances(e, path) ==
    IF e.tag # Head(path) THEN <<>>
    ELSE IF Len(path) = 1 THEN <<e>>
    ELSE InstancesOf(e.children, Tail(path))

ChildGroups(e) ==
    [n |-> Len(e.children),
     groups |-> {<<e.children[i].tag, e.children[i].text>> :
                    i \in 1..Len(e.children)}]

\* the paths of the source at which an element has a sibling of its tag
RECURSIVE RepeatedPaths(_, _)
RepeatedPaths(e, prefix) ==
    LET here == prefix \o <<e.tag>>
    IN  {here \o <<e.children[i].tag>> : i \in
            {i \in 1..Len(e.children) :
                \E j \in 1..Len(e.children) :
                   j # i /\ e.children[j].tag = e.children[i].tag}}
        \cup UNION {RepeatedPaths(e.children[i], here) :
                        i \in 1..Len(e.children)}

RECURSIVE Attributes(_)
Attributes(e) ==
    {e.attrib[i][1] : i \in 1..Len(e.attrib)}
    \cup UNION {Attributes(e.children[i]) : i \in 1..Len(e.children)}

Reconstructed == tostring(xmlRecord.table, NSMAP, xmlRecord.root_node)

SiblingsAreRegrouped ==
    (kvpStage = "reconstructed" /\ config.include_sibling_id
     /\ xmlRecord.raised = "") =>
        /\ \A path \in RepeatedPaths(xmlDoc, <<>>) :
              LET source == Instances(xmlDoc, path)
                  rebuilt == Instances(Reconstructed, path)
              IN  SameBag([i \in 1..Len(source) |-> ChildGroups(source[i])],
                          [i \in 1..Len(rebuilt) |-> ChildGroups(rebuilt[i])])
        /\ SiblingHashId \notin Attributes(Reconstructed)

(***************************************************************************)
(* C19.  Field truncation: every value of the mapping xml_to_kvp returns   *)
(* is at most 32,000 characters long, whatever the configuration          *)
(* (add_literals, concatenation and splitting included); where values are  *)
(* neither concatenated nor split, a source value longer than that         *)
(* appears as its first 32,000 characters and a source value that is not   *)
(* longer appears unchanged.                                               *)
(***************************************************************************)
RECURSIVE SourceValues(_)
SourceValues(e) ==
    (IF e.text = <<>> THEN {} ELSE {e.text})
    \cup UNION {SourceValues(e.children[i]) : i \in 1..Len(e.children)}

MappedValues(mapping) ==
    UNION {{mapping[i].v[n] : n \in 1..Len(mapping[i].v)} :
               i \in 1..Len(mapping)}

EveryValueIsTruncated ==
    kvpStage = "mapped" =>
        /\ \A value \in MappedValues(kvpDict) : Len(value) <= SANITIZE_LENGTH
        /\ (config.concat_values_on_all_fields = ""
            /\ config.split_values_on_all_fields = "")
           => \A value \in SourceValues(xmlDoc) :
                 IF Len(value) > SANITIZE_LENGTH
                 THEN SubSeq(value, 1, SANITIZE_LENGTH) \in MappedValues(kvpDict)
                 ELSE value \in MappedValues(kvpDict)

(***************************************************************************)
(* C21. get_index_fields on indices that all exist and hold documents      *)
(* returns the mapped field names of all of them without db_id,            *)
(* combine_id, xml2kvp_meta and fingerprint, each name once, in ascending  *)
(* order; when an index named is absent, or none of them holds a document, *)
(* it returns None.                                                        *)
(***************************************************************************)
Given == {esIndex[i] : i \in 1..Len(esIndex)}

MappedNames ==
    UNION {{esCluster[name].properties[i] :
               i \in 1..Len(esCluster[name].properties)} : name \in Given}

ReservedNames == {db_id, combine_id, xml2kvp_meta, fingerprint}

FieldMetrics ==
    fieldDict.returned = "dict" =>
        LET total == srDict.hits.total.value
            docs == srDict.aggregations.doc_instances.doc_count
            vals == srDict.aggregations.val_instances.value
            distinct == srDict.aggregations.distinct.value
        IN  /\ docs > 0
            /\ fieldDict.doc_missing = total - docs
            /\ fieldDict.one_distinct_per_doc
                => /\ docs = vals /\ vals = total
                   /\ 10000 * distinct > (10000 - ONE_PER_DOC_OFFSET) * vals
                   /\ 10000 * distinct < (10000 + ONE_PER_DOC_OFFSET) * vals
            /\ (docs = total /\ vals = total /\ distinct = total)
                => fieldDict.one_distinct_per_doc
            /\ vals = 2 * docs => ~fieldDict.one_distinct_per_doc

\* A field that every document holds once, each value another, was measured.
OnePerDocFlagged ==
    /\ fieldDict.returned = "dict"
    /\ fieldDict.one_distinct_per_doc
    /\ srDict.hits.total.value = MaxDocs
    /\ fieldDict.doc_missing = 0

(***************************************************************************)
(* C23. total_record_count() of an organization is the sum of record_count *)
(* over the jobs whose record group belongs to it: the jobs of other       *)
(* organizations add nothing, an organization without record groups or     *)
(* without jobs counts 0, and the call leaves every table as it was.       *)
(***************************************************************************)
RECURSIVE SumOfCounts(_)
SumOfCounts(job_ids) ==
    IF job_ids = {} THEN 0
    ELSE LET j == CHOOSE j \in job_ids : TRUE
         IN  recordCounts[j] + SumOfCounts(job_ids \ {j})

JobsOfOrganization(o) ==
    {j \in DOMAIN jobs :
        jobs[j] \in DOMAIN recordGroups /\ recordGroups[jobs[j]] = o}

CountIsOfOwnJobs ==
    countResp # NoCount =>
        /\ countResp.total_record_count
               = SumOfCounts(JobsOfOrganization(countResp.org_id))
        /\ JobsOfOrganization(countResp.org_id) = {}
               => countResp.total_record_count = 0

TotalRecordCountSumsOwnJobs ==
    [][countResp' # countResp =>
          /\ CountIsOfOwnJobs'
          /\ UNCHANGED <<orgs, recordGroups, jobs, jobRecords, recordCounts,
                         bgTasks, queue>>]_vars

\* An organization with jobs was counted while another one had records too.
CountedBesideAnotherOrganization ==
    /\ countResp # NoCount
    /\ countResp.total_record_count > 0
    /\ \E j \in DOMAIN jobs :
           /\ j \notin JobsOfOrganization(countResp.org_id)
           /\ recordCounts[j] > 0

(***************************************************************************)
(* C24. A list request that presents a stored token is answered with the   *)
(* page at the start, of the chunk size and under the publish-set filter   *)
(* of the token's OAITransaction, whatever its own set argument and the    *)
(* configured OAI_RESPONSE_SIZE are; a list request without a token is     *)
(* answered with the page at start 0, of OAI_RESPONSE_SIZE records, under  *)
(* the filter of its set argument, none when set is absent or empty.       *)
(***************************************************************************)
PageFollowsStoredPaging ==
    (Answered /\ ListRequest(req) /\ TokenResolves(req, transactions)) =>
        LET pg == Paging(req, transactions)
        IN  /\ resp.status = "document"
            /\ NodesWithId(resp, "verb_node") # <<>>
            /\ Identifiers(resp) =
                   IdentifiersAt(Matching(records, pg.filter), pg.start,
                                 pg.start + pg.chunk_size)

\* A token was redeemed by a request that names another set than the
\* token's, under another OAI_RESPONSE_SIZE than the token's chunk size.
TokenRedeemedAgainstOwnArguments ==
    /\ Answered /\ ListRequest(req)
    /\ "resumptionToken" \in DOMAIN req
    /\ req["resumptionToken"] \in StoredTokens(transactions)
    /\ "set" \in DOMAIN req /\ req["set"] # ""
    /\ RowOf(transactions, req["resumptionToken"]).publish_set_id = NONE
    /\ RowOf(transactions, req["resumptionToken"]).chunk_size
           # OAI_RESPONSE_SIZE
    /\ Identifiers(resp) # <<>>

(***************************************************************************)
(* C25. Every document generate_response returns holds exactly one         *)
(* responseDate node and one request node; when the request is refused     *)
(* (badVerb, badResumptionToken, idDoesNotExist) it holds exactly one      *)
(* error node, which carries that code, and no verb node; otherwise it     *)
(* holds exactly one verb node, named after the verb, and no error node.   *)
(***************************************************************************)
Tagged(doc, tag) == SelectSeq(doc.root, LAMBDA n : n.tag = tag)

\* The error a request is to be refused with, NONE when it is to be served.
Refusal(args) ==
    IF ~SupportedVerb(args) THEN "badVerb"
    ELSE IF ~TokenResolves(args, transactions) THEN "badResumptionToken"
    ELSE IF /\ args["verb"] = "ListMetadataFormats"
            /\ "identifier" \in DOMAIN args
            /\ \A i \in 1..Len(records) :
                   records[i].record_id # args["identifier"]
         THEN "idDoesNotExist"
    ELSE NONE

DocumentIsErrorOrVerb ==
    (Answered /\ resp.status = "document") =>
        /\ Len(Tagged(resp, "responseDate")) = 1
        /\ Len(Tagged(resp, "request")) = 1
        /\ IF Refusal(req) # NONE
           THEN /\ ErrorCodes(resp) = <<Refusal(req)>>
                /\ Len(Tagged(resp, "error")) = 1
                /\ NodesWithId(resp, "verb_node") = <<>>
                /\ Len(resp.root) = 3
           ELSE /\ Len(Tagged(resp, req["verb"])) = 1
                /\ Len(NodesWithId(resp, "verb_node")) = 1
                /\ Tagged(resp, "error") = <<>>
                /\ Len(resp.root) = 3

\* ListMetadataFormats was refused for an identifier the store lacks.
UnknownIdentifierRefusedInDocument ==
    /\ Answered /\ resp.status = "document"
    /\ records # <<>>
    /\ Refusal(req) = "idDoesNotExist"
    /\ Len(Tagged(resp, "error")) = 1

(***************************************************************************)
(* C26. The listing of the background tasks calls update() exactly once on *)
(* every CombineBackgroundTask row that is not completed when the request  *)
(* arrives, before it renders the page, and on no completed row: a         *)
(* completed row is the same after the listing as before.                  *)
(***************************************************************************)
ListingUpdatesIncompleteRowsOnce ==
    [][ (bgRequests' = bgRequests + 1 /\ bgResp'.view = "bg_tasks") =>
        /\ bgResp'.status = "page"
        /\ Len(bgTasks') = Len(bgTasks)
        /\ \A i \in 1..Len(bgTasks) :
              /\ Count(updateCalls', bgTasks[i].id)
                     = IF bgTasks[i].completed THEN 0 ELSE 1
              /\ bgTasks[i].completed => bgTasks'[i] = bgTasks[i]
              /\ ~bgTasks[i].completed => bgTasks'[i] = ct_update(bgTasks[i])
        /\ \A k \in 1..Len(updateCalls') : updateCalls'[k] \in RowIds(bgTasks)
      ]_vars

\* A listing found one row completed and another one not.
ListedCompletedAndIncomplete ==
    /\ bgResp.view = "bg_tasks"
    /\ updateCalls # <<>>
    /\ \E i \in 1..Len(bgTasks) :
           bgTasks[i].completed /\ Count(updateCalls, bgTasks[i].id) = 0

(***************************************************************************)
(* C27. A field whose name copy_to maps to false, or a copy_to_regex       *)
(* pattern mapped to false matches, is absent from the mapping whatever    *)
(* remove_copied_key is; a field copied to a target that is not false      *)
(* appears under the target name, and under its own name as well exactly   *)
(* when remove_copied_key is false.                                        *)
(***************************************************************************)
\* The field names of the document: its mapping with nothing copied.
SourceFields ==
    {e.k : e \in Entries(xml_to_kvp(xmlDoc, XML2kvp(<<>>), 1).kvp_dict)}

MappedFields == {e.k : e \in Entries(kvpDict)}

MappedToFalse(k) ==
    \/ \E i \in 1..Len(config.copy_to) : config.copy_to[i] = <<k, False>>
    \/ \E i \in 1..Len(config.copy_to_regex) :
           /\ config.copy_to_regex[i][2] = False
           /\ match(config.copy_to_regex[i][1], k)

\* The targets that are not false a field is copied to.
Targets(k) ==
    {config.copy_to[i][2] :
        i \in {i \in 1..Len(config.copy_to) :
                  config.copy_to[i][1] = k /\ config.copy_to[i][2] # False}}
    \cup ({sub(config.copy_to_regex[i][1], config.copy_to_regex[i][2], k) :
             i \in {i \in 1..Len(config.copy_to_regex) :
                       config.copy_to_regex[i][2] # False}} \ {k})

CopiedFieldsAreRenamedOrDropped ==
    kvpStage = "mapped" =>
        \A k \in SourceFields :
            /\ MappedToFalse(k) => k \notin MappedFields
            /\ (Targets(k) # {} /\ ~MappedToFalse(k)) =>
                   /\ Targets(k) \subseteq MappedFields
                   /\ (k \in MappedFields) <=> ~config.remove_copied_key

(***************************************************************************)
(* C28. With error_on_delims_collision false xml_to_kvp never raises       *)
(* DelimiterCollision; with it true xml_to_kvp raises DelimiterCollision   *)
(* whenever an element name, an attribute name or an attribute value of    *)
(* the document contains node_delim or ns_prefix_delim, and then returns   *)
(* no mapping.                                                             *)
(***************************************************************************)
Collides(s) ==
    \E i \in 1..Len(s) :
        s[i] \in {kvpHandler.node_delim, kvpHandler.ns_prefix_delim}

RECURSIVE Elements(_)
Elements(e) ==
    {e} \cup UNION {Elements(e.children[i]) : i \in 1..Len(e.children)}

ElementNameCollides == \E e \in Elements(xmlDoc) : Collides(e.tag)

AttributeCollides ==
    \E e \in Elements(xmlDoc) :
        \E i \in 1..Len(e.attrib) :
            Collides(e.attrib[i][1]) \/ Collides(e.attrib[i][2])

DelimiterCollisionIsRaised ==
    kvpStage \in {"mapped", "raised"} =>
        /\ ~config.error_on_delims_collision => kvpStage = "mapped"
        /\ (config.error_on_delims_collision
            /\ (ElementNameCollides \/ AttributeCollides)) =>
               kvpStage = "raised" /\ kvpDict = NoMapping

(***************************************************************************)
(* C29. The header identifier GetRecord emits for a published record is    *)
(* the header identifier ListIdentifiers and ListRecords emit for the      *)
(* same record, whether or not the record belongs to a publish set.        *)
(***************************************************************************)
\* The header identifiers a list verb emits for the records of the store,
\* asked without a set and with a page that holds them all.
ListedIdentifiers(verb) ==
    Identifiers(serialize(Serve([verb |-> verb], records, <<>>, now,
                                Len(records))))

\* Where the record with an identifier stands in the store.
RowOfRecord(identifier) ==
    CHOOSE i \in 1..Len(records) : records[i].record_id = identifier

GetRecordEmitted ==
    /\ Answered /\ SupportedVerb(req) /\ req["verb"] = "GetRecord"
    /\ resp.status = "document"
    /\ RecordNodes(resp) # <<>>

GetRecordIdentifierIsListedIdentifier ==
    GetRecordEmitted =>
        \A verb \in ListVerbs :
            Identifiers(resp)[1] =
                ListedIdentifiers(verb)[RowOfRecord(req["identifier"])]

(***************************************************************************)
(* C30. In a ListRecords or ListIdentifiers chain started with a set       *)
(* argument, every record header of every page holds a setSpec equal to    *)
(* the publish set the page is filtered by: on the first page, and on      *)
(* each page served to a request that carries only the verb and the        *)
(* resumptionToken.                                                        *)
(***************************************************************************)
\* A page of records was served to a request that starts a chain, or to
\* one that redeems a token with the verb and the token alone.
PageOfChainServed ==
    /\ Answered /\ ListRequest(req)
    /\ resp.status = "document"
    /\ RecordNodes(resp) # <<>>
    /\ \/ "resumptionToken" \notin DOMAIN req
       \/ DOMAIN req = {"verb", "resumptionToken"}

EveryHeaderOfAChainNamesItsSet ==
    (PageOfChainServed /\ Paging(req, transactions).filter # NONE) =>
        \A i \in 1..Len(RecordNodes(resp)) :
            RecordNodes(resp)[i].header.setSpec =
                <<Paging(req, transactions).filter>>

====
